---- MODULE Spec2Model ----
(***************************************************************************)
(* Model of the bpfman-operator reconciliation engine.                     *)
(*                                                                         *)
(* Agent side: the link reconcile of a cluster XDP program on one node     *)
(* (updateLinks / findLink / processLinks / removeLinks /                  *)
(* updateProgramAttachStatus / getExpectedLinks / isAttached) together     *)
(* with the per-node program lifecycle (load, unload, finalizer); the      *)
(* expansion of a uprobe program; the reconcile of composite applications. *)
(* Operator side: the cluster-level reconcile of a program object that     *)
(* rolls the per-node records up into one status condition.                *)
(***************************************************************************)
EXTENDS Integers, Sequences, FiniteSets, TLC

VARIABLES
    links,              \* r.currentProgramState.XDP.Links
    programId,          \* r.currentProgramState.ProgramId (None = nil)
    programLinkStatus,  \* r.currentProgramState.ProgramLinkStatus
    exists,             \* the per-node record is in the object store
    finalizer,          \* the per-node record carries the lifecycle finalizer
    deleting,           \* isBeingDeleted: program deleted or node not selected
    desired,            \* r.currentProgram.XDP.Links (the attach infos)
    containers,         \* what r.Containers.GetContainers returns on this node
    rtLinks,            \* links live in the runtime: records [id, uuid]
    rtLoaded,           \* the program is loaded in the runtime
    rpcHist,            \* UUID -> the RPC calls made for the stored link
    budget,             \* RPC failures, lost links and spec edits still to come
    last,               \* what the most recent reconcile did
    progFinalizer,      \* the program object carries the operator's finalizer
    conditions,         \* the program object's Status.Conditions (their types)
    bpfPrograms,        \* the per-node records in the object store
    opLast,             \* what the operator's most recent reconcile did
    fn,                 \* a function of the agent: its inputs, then its result
    apps,               \* the BpfApplications the agent lists, in order
    appRecords,         \* the per-node records of sub-programs: [owner, id]
    appBudget,          \* edits of the applications still to come
    appLast,            \* what the most recent application reconcile did
    conc                \* a controller's work queue, workers and reconciler

agentVars == <<links, programId, programLinkStatus, exists, finalizer, deleting,
               desired, containers, rtLinks, rtLoaded, rpcHist, budget,
               last>>

opVars == <<progFinalizer, conditions, bpfPrograms, opLast>>

fnVars == <<fn>>

appVars == <<apps, appRecords, appBudget, appLast>>

concVars == <<conc>>

vars == <<agentVars, opVars, fnVars, appVars, concVars>>

-----------------------------------------------------------------------------
(* Bounds of the model.                                                    *)

\* RPC calls that fail in one behaviour.
MaxFail == 2
\* Links the runtime loses behind the agent's back in one behaviour.
MaxLost == 1
\* Edits of the desired program in one behaviour.
MaxChanges == 2
\* Sub-programs of one application.
MaxProgs == 2
\* Edits of the applications in one behaviour.
MaxAppChanges == 1
\* Containers GetContainers reports on the node.
MaxUnsaved == 1        \* reconciles whose status update fails
MaxNetns == 2          \* namespaces one interface fans out to
MaxResults == 3        \* results one List response holds
MaxContainers == 2

-----------------------------------------------------------------------------
(* Go values.                                                              *)

\* A nil pointer, and a pointer to x.
None == <<>>
Some(x) == <<x>>

\* A Go slice: reflect.DeepEqual tells a nil slice from an empty one.
NilSlice == [isNil |-> TRUE, elems |-> <<>>]
Slice(s) == [isNil |-> FALSE, elems |-> s]

Range(s) == {s[i] : i \in DOMAIN s}

RECURSIVE Flatten(_)
Flatten(ss) == IF ss = <<>> THEN <<>> ELSE Head(ss) \o Flatten(Tail(ss))

Max(S) == CHOOSE x \in S : \A y \in S : y <= x

\* The element of a one-element set.
The(S) == CHOOSE x \in S : TRUE

-----------------------------------------------------------------------------
(* Expansion: ClXdpProgramReconciler.getExpectedLinks.                     *)


\* getInterfaces: the interface selector resolved into a concrete list.  A
\* selector naming its interfaces resolves to that list; the lookup fails
\* when the node cannot resolve it (ifErr).
getInterfaces(selector, ifErr) ==
    IF ifErr THEN [ifs |-> <<>>, err |-> TRUE]
    ELSE [ifs |-> selector.Interfaces, err |-> FALSE]

\* getInterfaceNetNsList: the namespaces an interface fans out to, as a map
\* from interface name to the list of namespace paths.
getInterfaceNetNsList(selector, iface) ==
    IF iface \in DOMAIN selector.NetNs /\ selector.NetNs[iface] # <<>>
    THEN [i \in {iface} |-> selector.NetNs[iface]]
    ELSE <<>>

\* The subsequence of s at the indices in keep, in order.
RECURSIVE Keep(_, _, _)
Keep(s, keep, k) ==
    IF k > Len(s) THEN <<>>
    ELSE (IF k \in keep THEN <<s[k]>> ELSE <<>>) \o Keep(s, keep, k + 1)

\* GetOneContainerPerPod: the first container listed of every pod.
GetOneContainerPerPod(cs) ==
    Keep(cs, {k \in DOMAIN cs :
                 \A j \in 1..(k - 1) : cs[j].podName # cs[k].podName}, 1)

\* netnsPathFromPID: the namespace path of a container's pid.
netnsPathFromPID(pid) == <<"proc", pid, "ns", "net">>

\* A link built without its namespace path.
NewLinkNoNetns(iface, netns, attachInfo) ==
    [ShouldAttach  |-> TRUE,
     UUID          |-> 0,
     LinkId        |-> None,
     LinkStatus    |-> "NotAttached",
     InterfaceName |-> iface,
     NetnsPath     |-> <<>>,
     Priority      |-> attachInfo.Priority,
     ProceedOn     |-> attachInfo.ProceedOn]

\* A link as getExpectedLinks builds it; the UUID is filled in by the caller
\* in the order the links are appended.
NewLink(iface, netns, attachInfo) ==
    [ShouldAttach  |-> TRUE,
     UUID          |-> 0,
     LinkId        |-> None,
     LinkStatus    |-> "NotAttached",
     InterfaceName |-> iface,
     NetnsPath     |-> netns,
     Priority      |-> attachInfo.Priority,
     ProceedOn     |-> attachInfo.ProceedOn]

\* uuid.New(): a UUID no stored link and no link of the runtime carries.
\* FreshUUIDs(used, n) are n such UUIDs, all different.
RECURSIVE FreshUUIDs(_, _)
FreshUUIDs(used, n) ==
    IF n = 0 THEN <<>>
    ELSE LET u == CHOOSE x \in 1..(Cardinality(used) + 1) : x \notin used
         IN  <<u>> \o FreshUUIDs(used \cup {u}, n - 1)

\* One uuid.New() for all the links of an expansion.
WithUUIDsSame(ls, used) ==
    [k \in DOMAIN ls |-> [ls[k] EXCEPT !.UUID = FreshUUIDs(used, 1)[1]]]

\* uuid.New() for every link of an expansion, in the order they are built.
WithUUIDs(ls, used) ==
    LET fresh == FreshUUIDs(used, Len(ls))
    IN  [k \in DOMAIN ls |-> [ls[k] EXCEPT !.UUID = fresh[k]]]

\* getExpectedLinks: an attach info expanded into the attach points of this
\* node.  cinfo is what GetContainers returns (None: nil), ctrErr and ifErr
\* its and getInterfaces' failure.
getExpectedLinks(attachInfo, cinfo, ifErr, ctrErr, used) ==
    LET got == getInterfaces(attachInfo.InterfaceSelector, ifErr)
        interfaces == got.ifs
        perContainer ==
            LET one == GetOneContainerPerPod(cinfo[1])
            IN  Flatten([c \in DOMAIN one |->
                    [i \in DOMAIN interfaces |->
                        NewLink(interfaces[i], netnsPathFromPID(one[c].pid),
                                attachInfo)]])
        perInterface ==
            Flatten([i \in DOMAIN interfaces |->
                LET iface == interfaces[i]
                    netnsList == getInterfaceNetNsList(
                                     attachInfo.InterfaceSelector, iface)
                IN  IF Cardinality(DOMAIN netnsList) = 0
                    THEN <<NewLink(iface, <<>>, attachInfo)>>
                    ELSE [n \in DOMAIN netnsList[iface] |->
                             NewLink(iface, netnsList[iface][n], attachInfo)]])
    IN  IF got.err THEN [links |-> <<>>, err |-> TRUE]
        ELSE IF attachInfo.NetworkNamespaces # None
        THEN IF ctrErr THEN [links |-> <<>>, err |-> TRUE]
             ELSE IF cinfo # None
             THEN [links |-> WithUUIDs(perContainer, used), err |-> FALSE]
             ELSE [links |-> <<>>, err |-> FALSE]
        ELSE [links |-> WithUUIDs(perInterface, used), err |-> FALSE]

-----------------------------------------------------------------------------
(* Expansion: UprobeProgramReconciler.getExpectedBpfPrograms.              *)

\* internal.UprobeProgramTarget, UprobeNoContainersOnNode, UprobeContainerPid.
UprobeProgramTarget == "UprobeProgramTarget"
UprobeNoContainersOnNode == "UprobeNoContainersOnNode"
UprobeContainerPid == "UprobeContainerPid"

\* sanitize: a name made fit for an object name.
sanitize(name) == <<"sanitized", name>>

\* strconv.FormatInt(pid, 10) for the pids of the model.
FormatInt(n) == <<"0", "1", "2", "3", "4", "5", "6", "7", "8", "9">>[n + 1]

\* createBpfProgram: the per-node record of one attach point.
createBpfProgram(attachPoint, annotations) ==
    [attachPoint |-> attachPoint, annotations |-> annotations]

\* A getExpectedBpfPrograms that emits nothing when no container matches.
getExpectedBpfProgramsNoSentinel(uprobe, cinfo, ctrErr) ==
    LET sanitizedUprobe == sanitize(uprobe.Target) \o sanitize(uprobe.FunctionName)
        found == IF cinfo = None THEN <<>> ELSE cinfo[1]
    IN  IF uprobe.Containers # None
        THEN IF ctrErr THEN [progs |-> <<>>, err |-> TRUE]
             ELSE [progs |->
                      [c \in DOMAIN found |->
                          createBpfProgram(
                              sanitizedUprobe
                                  \o <<found[c].podName, found[c].containerName>>,
                              (UprobeProgramTarget :> uprobe.Target)
                                  @@ (UprobeContainerPid :> FormatInt(found[c].pid)))],
                   err |-> FALSE]
        ELSE [progs |-> <<createBpfProgram(sanitizedUprobe,
                              UprobeProgramTarget :> uprobe.Target)>>,
              err |-> FALSE]

\* getExpectedBpfPrograms: a uprobe program expanded into the per-node
\* records of this node.  cinfo is what GetContainers returns (None: nil),
\* ctrErr its failure.
getExpectedBpfPrograms(uprobe, cinfo, ctrErr) ==
    LET sanitizedUprobe == sanitize(uprobe.Target) \o sanitize(uprobe.FunctionName)
    IN  IF uprobe.Containers # None
        THEN IF ctrErr THEN [progs |-> <<>>, err |-> TRUE]
             ELSE IF cinfo = None \/ Len(cinfo[1]) = 0
             THEN [progs |-> <<createBpfProgram(
                                  sanitizedUprobe \o <<"no-containers-on-node">>,
                                  (UprobeProgramTarget :> uprobe.Target)
                                      @@ (UprobeNoContainersOnNode :> "true"))>>,
                   err |-> FALSE]
             ELSE [progs |->
                      [c \in DOMAIN cinfo[1] |->
                          createBpfProgram(
                              sanitizedUprobe
                                  \o <<cinfo[1][c].podName,
                                       cinfo[1][c].containerName>>,
                              (UprobeProgramTarget :> uprobe.Target)
                                  @@ (UprobeContainerPid :> FormatInt(cinfo[1][c].pid)))],
                   err |-> FALSE]
        ELSE [progs |-> <<createBpfProgram(sanitizedUprobe,
                              UprobeProgramTarget :> uprobe.Target)>>,
              err |-> FALSE]

\* noContainersOnNode: the record is the sentinel of a selector that matched
\* no container.
noContainersOnNode(bpfProgram, annotationIndex) ==
    annotationIndex \in DOMAIN bpfProgram.annotations

\* The load RPCs (a uprobe is attached by its load) one pass issues for the
\* expected records: none for the sentinel.
loadCalls(progs) ==
    Keep([k \in DOMAIN progs |-> [rpc |-> "load", attachPoint |-> progs[k].attachPoint]],
         {k \in DOMAIN progs :
             ~noContainersOnNode(progs[k], UprobeNoContainersOnNode)}, 1)

-----------------------------------------------------------------------------
(* Identity and the diff: findLink and updateLinks.                        *)

\* A findLink that takes the UUID for part of a link's identity.
SameLinkAndUUID(a, b) ==
    /\ a.InterfaceName = b.InterfaceName
    /\ a.Priority = b.Priority
    /\ a.NetnsPath = b.NetnsPath
    /\ a.ProceedOn = b.ProceedOn
    /\ a.UUID = b.UUID

\* A findLink that does not look at the priority.
SameLinkNoPriority(a, b) ==
    /\ a.InterfaceName = b.InterfaceName
    /\ a.NetnsPath = b.NetnsPath
    /\ a.ProceedOn = b.ProceedOn

\* The test inside findLink: IfName, NetnsPath, Priority and ProceedOn.
SameLink(a, b) ==
    /\ a.InterfaceName = b.InterfaceName
    /\ a.Priority = b.Priority
    /\ a.NetnsPath = b.NetnsPath
    /\ a.ProceedOn = b.ProceedOn

\* A findLink that finds nothing.
findLinkNever(ls, attachInfoState) == 0

\* findLink: the index of the first stored link equal to attachInfoState in
\* its identity fields; 0 stands for the nil index.
findLink(ls, attachInfoState) ==
    IF \E i \in DOMAIN ls : SameLink(ls[i], attachInfoState)
    THEN CHOOSE i \in DOMAIN ls :
            /\ SameLink(ls[i], attachInfoState)
            /\ \A j \in 1..(i - 1) : ~SameLink(ls[j], attachInfoState)
    ELSE 0

\* An updateLinks that stores the expected link over the one it found.
RECURSIVE MergeExpectedReplace(_, _)
MergeExpectedReplace(ls, expectedLinks) ==
    IF expectedLinks = <<>> THEN ls
    ELSE LET link == Head(expectedLinks)
             index == findLink(ls, link)
         IN  MergeExpectedReplace(
                 IF index # 0
                 THEN [ls EXCEPT ![index] = link]
                 ELSE Append(ls, link),
                 Tail(expectedLinks))

\* The inner loop of updateLinks over the expected links of one attach info.
RECURSIVE MergeExpected(_, _)
MergeExpected(ls, expectedLinks) ==
    IF expectedLinks = <<>> THEN ls
    ELSE The({MergeExpected(next, Tail(expectedLinks)) :
                next \in {IF index # 0
                          THEN [ls EXCEPT ![index].ShouldAttach = TRUE]
                          ELSE Append(ls, Head(expectedLinks)) :
                            index \in {findLink(ls, Head(expectedLinks))}}})

\* The outer loop of updateLinks over the attach infos of the program.  acc
\* carries the links, the expected links seen so far, the error and the
\* UUIDs in use.
RECURSIVE MergeAttachInfos(_, _, _, _, _)
MergeAttachInfos(acc, attachInfos, cinfo, ifErr, ctrErr) ==
    IF attachInfos = <<>> \/ acc.err THEN acc
    ELSE The({MergeAttachInfos(next, Tail(attachInfos), cinfo, ifErr, ctrErr) :
                next \in {IF exp.err THEN [acc EXCEPT !.err = TRUE]
                          ELSE [links    |-> MergeExpected(acc.links, exp.links),
                                expected |-> acc.expected \o exp.links,
                                err      |-> FALSE,
                                used     |-> acc.used \cup
                                             {exp.links[k].UUID :
                                                 k \in DOMAIN exp.links}] :
                            exp \in {getExpectedLinks(Head(attachInfos), cinfo,
                                                      ifErr, ctrErr, acc.used)}}})

\* An updateLinks that leaves ShouldAttach as it is on a program being
\* deleted.
updateLinksNoReset(ls, deleted, infos, cinfo, ifErr, ctrErr, used) ==
    LET reset == [i \in DOMAIN ls |-> [ls[i] EXCEPT !.ShouldAttach = FALSE]]
    IN  IF deleted
        THEN [links |-> ls, expected |-> <<>>, err |-> FALSE, used |-> used]
        ELSE MergeAttachInfos([links |-> reset, expected |-> <<>>,
                               err |-> FALSE, used |-> used],
                              infos, cinfo, ifErr, ctrErr)

\* An updateLinks without the reset of ShouldAttach.
updateLinksKeepFlags(ls, isBeingDeleted, attachInfos, cinfo, ifErr, ctrErr, used) ==
    LET start == [links |-> ls, expected |-> <<>>, err |-> FALSE,
                  used |-> used]
    IN  IF isBeingDeleted THEN start
        ELSE MergeAttachInfos(start, attachInfos, cinfo, ifErr, ctrErr)

\* updateLinks: reset ShouldAttach everywhere, then, unless the program is
\* being deleted, mark or append the expected links.
updateLinks(ls, isBeingDeleted, attachInfos, cinfo, ifErr, ctrErr, used) ==
    LET reset == [i \in DOMAIN ls |-> [ls[i] EXCEPT !.ShouldAttach = FALSE]]
        start == [links |-> reset, expected |-> <<>>, err |-> FALSE,
                  used |-> used]
    IN  IF isBeingDeleted THEN start
        ELSE MergeAttachInfos(start, attachInfos, cinfo, ifErr, ctrErr)

-----------------------------------------------------------------------------
(* The converge pass: isAttached, reconcileBpfLink and processLinks.       *)

\* doesLinkExist: the runtime reports the link handle for the program.
doesLinkExist(rt, linkId) == \E l \in rt : l.id = linkId

\* An isAttached that never reports a link attached.
isAttachedNever(progId, link, rt) == FALSE

\* isAttached: false without a program id or a link id, else what the
\* runtime reports for the link id.
isAttached(progId, link, rt) ==
    IF progId = None \/ link.LinkId = None THEN FALSE
    ELSE doesLinkExist(rt, link.LinkId[1])

\* shouldAttach
shouldAttach(link) == link.ShouldAttach

\* The handle the runtime returns for a new link: one that no live link and
\* no stored link holds.
NewLinkId(rt, held) ==
    LET taken == {l.id : l \in rt} \cup held
    IN  CHOOSE x \in 1..(Cardinality(taken) + 1) : x \notin taken

\* What reconcileBpfLink returns when it leaves the link alone: the link,
\* whether to remove it, the error, the RPC issued, the runtime after it.
Untouched(link, rt) ==
    [link |-> link, remove |-> FALSE, err |-> FALSE, rpc |-> "none", rt |-> rt]

\* The attach step of reconcileBpfLink: on success the link holds the new
\* handle with AttachSuccess, on failure it is AttachError.  st carries the
\* runtime's links and the handles stored links hold, attachFails the UUIDs
\* whose attach RPC fails in this pass.
attachLink(link, st, attachFails) ==
    LET newId == NewLinkId(st.rt, st.held)
    IN  IF link.UUID \in attachFails
        THEN [Untouched(link, st.rt) EXCEPT
                 !.link.LinkStatus = "AttachError",
                 !.err = TRUE, !.rpc = "attach"]
        ELSE [Untouched(link, st.rt) EXCEPT
                 !.link.LinkId = Some(newId),
                 !.link.LinkStatus = "AttachSuccess",
                 !.rpc = "attach",
                 !.rt = st.rt \cup {[id |-> newId, uuid |-> link.UUID]}]

\* A detach step that leaves the status alone when the RPC fails.
detachLinkQuiet(link, st, detachFails) ==
    IF link.UUID \in detachFails
    THEN [Untouched(link, st.rt) EXCEPT !.err = TRUE, !.rpc = "detach"]
    ELSE [Untouched(link, st.rt) EXCEPT
             !.link.LinkId = None,
             !.remove = TRUE,
             !.rpc = "detach",
             !.rt = {l \in st.rt : l.id # link.LinkId[1]}]

\* The detach step of reconcileBpfLink: on success the handle is cleared and
\* the link marked for removal, on failure it is AttachError and stays, with
\* its handle, for the next reconcile.
detachLink(link, st, detachFails) ==
    IF link.UUID \in detachFails
    THEN [Untouched(link, st.rt) EXCEPT
             !.link.LinkStatus = "AttachError",
             !.err = TRUE, !.rpc = "detach"]
    ELSE [Untouched(link, st.rt) EXCEPT
             !.link.LinkId = None,
             !.remove = TRUE,
             !.rpc = "detach",
             !.rt = {l \in st.rt : l.id # link.LinkId[1]}]

\* reconcileBpfLink: one link driven towards ShouldAttach.  A link that
\* should be and is attached is left alone; one that should not be and is
\* not attached is marked for removal.
reconcileBpfLink(progId, link, st, attachFails, detachFails) ==
    LET att == isAttached(progId, link, st.rt)
    IN  CASE shouldAttach(link) /\ ~att -> attachLink(link, st, attachFails)
          [] ~shouldAttach(link) /\ att -> detachLink(link, st, detachFails)
          [] shouldAttach(link) /\ att -> Untouched(link, st.rt)
          [] OTHER -> [Untouched(link, st.rt) EXCEPT !.remove = TRUE]

UUIDsOf(ls) == {ls[i].UUID : i \in DOMAIN ls}

LinkIdsOf(ls) == {ls[i].LinkId[1] : i \in {j \in DOMAIN ls : ls[j].LinkId # None}}

\* A removeLinks that keeps the links it was to remove.
removeLinksInverted(ls, linksToRemove) == Keep(ls, linksToRemove, 1)

\* A removeLinks that never appends to remainingLinks.
removeLinksAll(ls, linksToRemove) == <<>>

\* removeLinks: the links whose index is not a key of linksToRemove.
removeLinks(ls, linksToRemove) == Keep(ls, DOMAIN ls \ linksToRemove, 1)

\* isAttachSuccess: a link is as it should be.
isAttachSuccess(should, status) ==
    IF should THEN status = "AttachSuccess"
    ELSE status \in {"NotAttached", "Detached"}

\* An updateProgramAttachStatus that does not look at the links.
updateProgramAttachStatusOk(ls) == "Success"

\* updateProgramAttachStatus: error as soon as one link is not as it should.
updateProgramAttachStatus(ls) ==
    IF \E i \in DOMAIN ls :
           ~isAttachSuccess(ls[i].ShouldAttach, ls[i].LinkStatus)
    THEN "Error" ELSE "Success"

\* A round of the loop that keeps the first error instead of the last.
NotedFirstError(acc, i, r) ==
    [links   |-> [acc.links EXCEPT ![i] = r.link],
     remove  |-> IF r.remove THEN acc.remove \cup {i} ELSE acc.remove,
     lastErr |-> IF r.err /\ acc.lastErr = 0 THEN i ELSE acc.lastErr,
     calls   |-> IF r.rpc = "none" THEN acc.calls
                 ELSE Append(acc.calls, [rpc |-> r.rpc,
                                         uuid |-> acc.links[i].UUID,
                                         ok |-> ~r.err]),
     rt      |-> r.rt]

\* What one round of the loop of processLinks makes of acc, given what
\* reconcileBpfLink returned for link i: the link as it left it, the index
\* added to linksToRemove, the error kept as the last one, the RPC noted.
Noted(acc, i, r) ==
    [links   |-> [acc.links EXCEPT ![i] = r.link],
     remove  |-> IF r.remove THEN acc.remove \cup {i} ELSE acc.remove,
     lastErr |-> IF r.err THEN i ELSE acc.lastErr,
     calls   |-> IF r.rpc = "none" THEN acc.calls
                 ELSE Append(acc.calls, [rpc |-> r.rpc,
                                         uuid |-> acc.links[i].UUID,
                                         ok |-> ~r.err]),
     rt      |-> r.rt]

\* A loop of processLinks that returns at the first error.
RECURSIVE ProcessFromAbort(_, _, _, _, _)
ProcessFromAbort(acc, i, progId, attachFails, detachFails) ==
    IF i > Len(acc.links) \/ acc.lastErr # 0 THEN acc
    ELSE The({ProcessFromAbort(Noted(acc, i, r), i + 1, progId,
                               attachFails, detachFails) :
                r \in {reconcileBpfLink(progId, acc.links[i],
                                        [rt |-> acc.rt,
                                         held |-> LinkIdsOf(acc.links)],
                                        attachFails, detachFails)}})

\* The loop of processLinks over the links, from index i on.  acc carries the
\* links, linksToRemove, the last error (its index; 0: nil), the RPCs issued
\* and the runtime.
RECURSIVE ProcessFrom(_, _, _, _, _)
ProcessFrom(acc, i, progId, attachFails, detachFails) ==
    IF i > Len(acc.links) THEN acc
    ELSE The({ProcessFrom(Noted(acc, i, r), i + 1, progId,
                          attachFails, detachFails) :
                r \in {reconcileBpfLink(progId, acc.links[i],
                                        [rt |-> acc.rt,
                                         held |-> LinkIdsOf(acc.links)],
                                        attachFails, detachFails)}})

\* A processLinks that hands back the links as it found them when a link
\* failed.
processLinksRollback(ls, progId, rt, attachFails, detachFails) ==
    LET Result(done, kept) ==
            [links   |-> IF done.lastErr # 0 THEN ls ELSE kept,
             status  |-> updateProgramAttachStatus(kept),
             lastErr |-> done.lastErr,
             calls   |-> done.calls,
             rt      |-> done.rt]
    IN  The({Result(done, IF Cardinality(done.remove) > 0
                          THEN removeLinks(done.links, done.remove)
                          ELSE done.links) :
                done \in {ProcessFrom([links |-> ls, remove |-> {},
                                       lastErr |-> 0, calls |-> <<>>,
                                       rt |-> rt],
                                      1, progId, attachFails, detachFails)}})

\* processLinks: reconcile every link, drop the links marked for removal,
\* recompute the program's attach status, return the last error.
processLinks(ls, progId, rt, attachFails, detachFails) ==
    LET Result(done, kept) ==
            [links   |-> kept,
             status  |-> updateProgramAttachStatus(kept),
             lastErr |-> done.lastErr,
             calls   |-> done.calls,
             rt      |-> done.rt]
    IN  The({Result(done, IF Cardinality(done.remove) > 0
                          THEN removeLinks(done.links, done.remove)
                          ELSE done.links) :
                done \in {ProcessFrom([links |-> ls, remove |-> {},
                                       lastErr |-> 0, calls |-> <<>>,
                                       rt |-> rt],
                                      1, progId, attachFails, detachFails)}})

-----------------------------------------------------------------------------
(* The desired programs and the node's containers the model draws from.    *)

AttachInfo(ifs, netns) ==
    [InterfaceSelector |-> [Interfaces |-> ifs, NetNs |-> <<>>],
     NetworkNamespaces |-> netns,
     Priority          |-> 0,
     ProceedOn         |-> NilSlice]

\* r.currentProgram.XDP.Links: no attach info, one interface, three
\* interfaces.
DesiredSpecs ==
    { <<>>,
      <<AttachInfo(<<"eth1">>, None)>>,
      <<AttachInfo(<<"eth0", "eth1", "eth2">>, None)>> }

\* What GetContainers returns on this node.
ContainerInfos == { Some(<<>>) }

-----------------------------------------------------------------------------
(* The state machine.                                                      *)

InitAgent ==
    /\ links = <<>>
    /\ programId = None
    /\ programLinkStatus = ""
    /\ exists = FALSE
    /\ finalizer = FALSE
    /\ deleting = FALSE
    /\ desired \in DesiredSpecs
    /\ containers \in ContainerInfos
    /\ rtLinks = {}
    /\ rtLoaded = FALSE
    /\ rpcHist = <<>>
    /\ budget = [fail |-> MaxFail, lost |-> MaxLost, change |-> MaxChanges,
                 unsaved |-> MaxUnsaved]
    /\ last = [kind |-> "init"]

\* The RPC history of the stored links after a pass, per UUID: the successful
\* attach calls since its last detach and since the runtime last lost its
\* link, each counted up to two, and whether the latest RPC issued for it
\* succeeded.  A link that left the collection starts over.
CountAttaches(old, ls, calls) ==
    [u \in UUIDsOf(ls) |->
        LET mine == {k \in DOMAIN calls : calls[k].uuid = u}
            new == Cardinality({k \in mine :
                       calls[k].rpc = "attach" /\ calls[k].ok})
            known == u \in DOMAIN old
            Upto2(n) == IF n > 2 THEN 2 ELSE n
        IN  [attaches  |-> Upto2((IF known THEN old[u].attaches ELSE 0) + new),
             sinceLoss |-> Upto2((IF known THEN old[u].sinceLoss ELSE 0) + new),
             lastOk    |-> IF mine # {} THEN calls[Max(mine)].ok
                           ELSE IF known THEN old[u].lastOk
                           ELSE TRUE]]

\* The UUIDs uuid.New() cannot return again.
UsedUUIDs == UUIDsOf(links) \cup {l.uuid : l \in rtLinks}

\* The links a pass over ls issues an attach, a detach RPC for.
NeedAttach(ls) ==
    {ls[i].UUID : i \in {j \in DOMAIN ls :
        shouldAttach(ls[j]) /\ ~isAttached(programId, ls[j], rtLinks)}}
NeedDetach(ls) ==
    {ls[i].UUID : i \in {j \in DOMAIN ls :
        ~shouldAttach(ls[j]) /\ isAttached(programId, ls[j], rtLinks)}}

\* The sets of at most n elements of S.
UpTo(S, n) == {F \in SUBSET S : Cardinality(F) <= n}

Failed(n) == [budget EXCEPT !.fail = @ - n]

\* A LoadBpfmanProgram that hands back a program although the RPC failed.
LoadBpfmanProgramAnyway(ok) == [programs |-> Some(1), err |-> ~ok]

\* LoadBpfmanProgram: the programs of the response, or the error of the RPC.
LoadBpfmanProgram(ok) ==
    IF ~ok THEN [programs |-> None, err |-> TRUE]
    ELSE [programs |-> Some(1), err |-> FALSE]

\* UnloadBpfmanProgram: the error of the RPC.
UnloadBpfmanProgram(ok) == [err |-> ~ok]

\* First reconcile on a selected node, and every reconcile until the load
\* succeeds: create the per-node record with its finalizer and load the
\* program.
ReconcileLoadWith(ok) ==
    /\ ~deleting
    /\ programId = None
    /\ last.kind # "gone"
    /\ (~ok => budget.fail > 0)
    /\ programId' = LoadBpfmanProgram(ok).programs
    /\ rtLoaded' = ok
    /\ budget' = IF ok THEN budget ELSE Failed(1)
    /\ last' = [kind |-> "load", ok |-> ok]
    /\ exists' = TRUE
    /\ finalizer' = TRUE
    /\ UNCHANGED <<links, programLinkStatus, deleting, desired, containers,
                   rtLinks, rpcHist>>
    /\ UNCHANGED <<opVars, fnVars, appVars, concVars>>

ReconcileLoad == \E ok \in BOOLEAN : ReconcileLoadWith(ok)

\* Every reconcile of a loaded program: updateLinks, then processLinks.
\* expandErr is the failure of the expansion, fails the UUIDs whose attach
\* or detach fails.
ReconcileLinksWith(expandErr, fails) ==
    /\ exists /\ ~deleting /\ programId # None
    /\ \E ul \in {updateLinks(links, FALSE, desired, containers,
                              expandErr = "interfaces", FALSE, UsedUUIDs)} :
            IF ul.err
            THEN /\ fails = {}
                 /\ budget.fail > 0
                 /\ budget' = Failed(1)
                 /\ links' = ul.links
                 /\ last' = [kind |-> "expandError"]
                 /\ UNCHANGED <<programLinkStatus, rtLinks, rpcHist>>
            ELSE /\ fails \in UpTo(NeedAttach(ul.links)
                                   \cup NeedDetach(ul.links), budget.fail)
                 /\ \E pl \in {processLinks(ul.links, programId, rtLinks,
                                             fails, fails)} :
                     /\ links' = pl.links
                     /\ programLinkStatus' = pl.status
                     /\ rtLinks' = pl.rt
                     /\ rpcHist' = CountAttaches(rpcHist, pl.links,
                                                     pl.calls)
                     /\ budget' = Failed(Cardinality(fails))
                     /\ last' = [kind     |-> "links",
                                 need     |-> NeedAttach(ul.links),
                                 fails    |-> fails,
                                 calls    |-> pl.calls,
                                 lastErr  |-> pl.lastErr,
                                 rerun    |-> last.kind = "links",
                                 prevErr  |-> last.kind = "links"
                                              /\ last.lastErr # 0,
                                 prevFailed |->
                                     IF last.kind = "links"
                                     THEN {c.uuid : c \in
                                              {d \in Range(last.calls) :
                                                  d.rpc = "attach" /\ ~d.ok}}
                                     ELSE {}]
    /\ UNCHANGED <<programId, exists, finalizer, deleting, desired,
                   containers, rtLoaded>>
    /\ UNCHANGED <<opVars, fnVars, appVars, concVars>>

ReconcileLinks ==
    \E expandErr \in {"none", "interfaces"},
       fails \in SUBSET (1..(Cardinality(UsedUUIDs) + 3)) :
        ReconcileLinksWith(expandErr, fails)

\* Reconcile of a program being deleted: detach everything, and once no
\* link is left unload the program and remove the finalizer, which lets the
\* per-node record go.  fails are the UUIDs whose detach fails, unloadOk the
\* outcome of the unload.
ReconcileDeleteWith(fails, unloadOk) ==
    /\ exists /\ deleting
    /\ \E ul \in {updateLinks(links, TRUE, desired, containers, FALSE, FALSE,
                              UsedUUIDs)} :
       \E pl \in {processLinks(ul.links, programId, rtLinks, {}, fails)} :
       LET empty == pl.links = <<>>
           unload == empty /\ programId # None
           gone == empty /\ (programId = None
                             \/ ~UnloadBpfmanProgram(unloadOk).err)
       IN  /\ fails \subseteq NeedDetach(ul.links)
           /\ Cardinality(fails) <= budget.fail
           /\ (~unloadOk => unload /\ budget.fail > Cardinality(fails))
           /\ links' = pl.links
           /\ programLinkStatus' = pl.status
           /\ rtLinks' = pl.rt
           /\ rpcHist' = CountAttaches(rpcHist, pl.links, pl.calls)
           /\ programId' = IF gone THEN None ELSE programId
           /\ rtLoaded' = IF unload /\ unloadOk THEN FALSE ELSE rtLoaded
           /\ finalizer' = IF gone THEN FALSE ELSE finalizer
           /\ exists' = ~gone
           /\ budget' = Failed(Cardinality(fails)
                               + (IF unloadOk THEN 0 ELSE 1))
           /\ last' = [kind     |-> IF gone THEN "gone" ELSE "delete",
                       calls    |-> pl.calls,
                       lastErr  |-> pl.lastErr,
                       unload   |-> unload,
                       unloadOk |-> unload /\ unloadOk]
    /\ UNCHANGED <<deleting, desired, containers>>
    /\ UNCHANGED <<opVars, fnVars, appVars, concVars>>

ReconcileDelete ==
    \E fails \in SUBSET UUIDsOf(links), unloadOk \in BOOLEAN :
        ReconcileDeleteWith(fails, unloadOk)

\* The desired program is deleted, or the node stops matching its selector.
DeleteRequest ==
    /\ ~deleting
    /\ deleting' = TRUE
    /\ last' = [kind |-> "env"]
    /\ UNCHANGED <<links, programId, programLinkStatus, exists, finalizer,
                   desired, containers, rtLinks, rtLoaded, rpcHist,
                   budget>>
    /\ UNCHANGED <<opVars, fnVars, appVars, concVars>>

\* The owning client edits the desired program's attach infos.
ChangeSpec ==
    /\ ~deleting
    /\ budget.change > 0
    /\ desired' \in DesiredSpecs \ {desired}
    /\ budget' = [budget EXCEPT !.change = @ - 1]
    /\ last' = [kind |-> "env"]
    /\ UNCHANGED <<links, programId, programLinkStatus, exists, finalizer,
                   deleting, containers, rtLinks, rtLoaded, rpcHist>>
    /\ UNCHANGED <<opVars, fnVars, appVars, concVars>>

\* Drift: the runtime loses a link behind the agent's back.
LinkLost ==
    /\ budget.lost > 0
    /\ \E l \in rtLinks :
        /\ rtLinks' = rtLinks \ {l}
        /\ rpcHist' = [u \in DOMAIN rpcHist |->
                          IF u = l.uuid
                          THEN [rpcHist[u] EXCEPT !.sinceLoss = 0]
                          ELSE rpcHist[u]]
    /\ budget' = [budget EXCEPT !.lost = @ - 1]
    /\ last' = [kind |-> "env"]
    /\ UNCHANGED <<links, programId, programLinkStatus, exists, finalizer,
                   deleting, desired, containers, rtLoaded>>
    /\ UNCHANGED <<opVars, fnVars, appVars, concVars>>

\* Drift: a reconcile of the links whose RPCs succeed and whose status
\* update fails.  What the runtime did stays, the stored record is the one
\* read at the start of the reconcile.
ReconcileLinksUnsaved ==
    /\ exists /\ ~deleting /\ programId # None
    /\ budget.unsaved > 0
    /\ \E ul \in {updateLinks(links, FALSE, desired, containers, FALSE, FALSE,
                              UsedUUIDs)} :
       \E pl \in {processLinks(ul.links, programId, rtLinks, {}, {})} :
           /\ ~ul.err
           /\ rtLinks' = pl.rt
           /\ rpcHist' = CountAttaches(rpcHist, links, pl.calls)
           /\ last' = [kind |-> "unsaved", calls |-> pl.calls]
    /\ budget' = [budget EXCEPT !.unsaved = @ - 1]
    /\ UNCHANGED <<links, programId, programLinkStatus, exists, finalizer,
                   deleting, desired, containers, rtLoaded>>
    /\ UNCHANGED <<opVars, fnVars, appVars, concVars>>

Next ==
    \/ ReconcileLoad
    \/ ReconcileLinks
    \/ ReconcileDelete
    \/ DeleteRequest
    \/ ChangeSpec
    \/ LinkLost

-----------------------------------------------------------------------------
(* The operator: the cluster-level reconcile of one program object.        *)

\* The program object reconciled, and the per-node records of the store with
\* the program their BpfProgramOwner label and owner reference name.
ProgName == "prog"
Owner ==
    [n \in {"prog-node1", "prog-node2", "other-node1", "orphan-node1"} |->
        IF n = "other-node1" THEN "other" ELSE ProgName]

\* metav1.GetControllerOf: the controller owner reference of a per-node
\* record; orphan-node1 carries the label of the program but no reference.
GetControllerOf(n) == IF n = "orphan-node1" THEN None ELSE Some(Owner[n])

\* A per-node record: absent, or present with the condition the agent wrote.
RecordStates == {"absent", "Loaded", "NotLoaded"}

\* meta.SetStatusCondition: a condition of a type not yet present is
\* appended, one of a type already present is updated in place.
SetStatusCondition(conds, cond) ==
    IF cond \in Range(conds) THEN conds ELSE Append(conds, cond)

\* A getBpfList that lists the records of every program.
getBpfListNoLabel(recs, progName) == {n \in DOMAIN recs : recs[n] # "absent"}

\* getBpfList: the records labelled with the program as their owner.
getBpfList(recs, progName) ==
    {n \in DOMAIN recs : recs[n] # "absent" /\ Owner[n] = progName}

\* updateCondition: the program is left with the one condition cond; nothing
\* is written when that is what it carries already.
updateCondition(conds, cond) ==
    IF conds = <<cond>> THEN [conds |-> conds, wrote |-> FALSE]
    ELSE [conds |-> <<cond>>, wrote |-> TRUE]

\* An updateStatus that sets the condition next to the ones present.
updateStatusKeepingOld(conds, cond, getFails) ==
    IF getFails THEN [conds |-> conds, wrote |-> FALSE, requeue |-> TRUE]
    ELSE [conds |-> SetStatusCondition(conds, cond), wrote |-> TRUE,
          requeue |-> FALSE]

\* updateStatus: fetch the program afresh, requeue when that fails, else
\* updateCondition.
updateStatus(conds, cond, getFails) ==
    IF getFails THEN [conds |-> conds, wrote |-> FALSE, requeue |-> TRUE]
    ELSE [conds   |-> updateCondition(conds, cond).conds,
          wrote   |-> updateCondition(conds, cond).wrote,
          requeue |-> FALSE]

\* A reconcileBpfProgram that settles the status in the reconcile that adds
\* the finalizer.
reconcileBpfProgramEager(hasFinalizer, conds, recs, getFails) ==
    LET owned == getBpfList(recs, ProgName)
        cond == IF \A n \in owned : recs[n] = "Loaded"
                THEN "ReconcileSuccess" ELSE "ReconcileError"
        st == updateStatus(conds, cond, getFails)
    IN  [finalizer |-> TRUE, conds |-> st.conds,
         did |-> IF ~hasFinalizer THEN [kind |-> "finalizer"]
                 ELSE IF st.requeue THEN [kind |-> "requeue"]
                 ELSE [kind    |-> "status",
                       cond    |-> cond,
                       entered |-> Len(conds),
                       wrote   |-> st.wrote]]

\* reconcileBpfProgram: a program without the operator's finalizer gets it and
\* nothing else; otherwise the program's condition is ReconcileSuccess when
\* every record it owns reports Loaded and ReconcileError when one does not.
reconcileBpfProgram(hasFinalizer, conds, recs, getFails) ==
    LET owned == getBpfList(recs, ProgName)
        cond == IF \A n \in owned : recs[n] = "Loaded"
                THEN "ReconcileSuccess" ELSE "ReconcileError"
        st == updateStatus(conds, cond, getFails)
    IN  IF ~hasFinalizer
        THEN [finalizer |-> TRUE, conds |-> conds,
              did |-> [kind |-> "finalizer"]]
        ELSE [finalizer |-> TRUE, conds |-> st.conds,
              did |-> IF st.requeue THEN [kind |-> "requeue"]
                      ELSE [kind    |-> "status",
                            cond    |-> cond,
                            entered |-> Len(conds),
                            wrote   |-> st.wrote]]

InitOp ==
    /\ progFinalizer = FALSE
    /\ conditions = <<>>
    /\ bpfPrograms = [n \in DOMAIN Owner |-> "absent"]
    /\ opLast = [kind |-> "init"]

InitFn == fn = [kind |-> "idle"]

\* No application on the cluster.
InitNoApp ==
    /\ apps = <<>>
    /\ appRecords = {}
    /\ appBudget = 0
    /\ appLast = [kind |-> "init"]

\* A controller that has not been started.
InitNoConc == conc = [kind |-> "idle"]

Init == InitAgent /\ InitOp /\ InitFn /\ InitNoApp /\ InitNoConc

\* A lookup that takes the label of a record for its owner.
findProgramByLabel(key, recs) ==
    IF key = ProgName THEN "program"
    ELSE IF recs[key] = "absent" THEN "stale"
    ELSE IF Owner[key] = ProgName THEN "program"
    ELSE "stale"

\* The head of Reconcile: the request names the program, or a per-node
\* record whose controller owner reference leads to it; a record that is
\* gone or whose owner is gone is a stale request, a record without owner
\* reference an error.
findProgram(key, recs) ==
    IF key = ProgName THEN "program"
    ELSE IF recs[key] = "absent" THEN "stale"
    ELSE IF GetControllerOf(key) = None THEN "ownerError"
    ELSE IF GetControllerOf(key)[1] = ProgName THEN "program"
    ELSE "stale"

\* Reconcile of the request key; getFails is the failure of the Get in
\* updateStatus.
ReconcileKey(key, getFails) ==
    \E found \in {findProgram(key, bpfPrograms)} :
    \E r \in {reconcileBpfProgram(progFinalizer, conditions, bpfPrograms,
                                  getFails)} :
        /\ progFinalizer' = IF found = "program" THEN r.finalizer
                            ELSE progFinalizer
        /\ conditions' = IF found = "program" THEN r.conds ELSE conditions
        /\ opLast' = (IF found = "program" THEN r.did ELSE [kind |-> found])
                      @@ ("ownerless" :> (key # ProgName
                                          /\ bpfPrograms[key] # "absent"
                                          /\ GetControllerOf(key) = None))
        /\ UNCHANGED <<bpfPrograms, agentVars, fnVars, appVars, concVars>>

Reconcile ==
    \E key \in {ProgName} \cup DOMAIN Owner, getFails \in BOOLEAN :
        ReconcileKey(key, getFails)

\* An agent creates a per-node record or writes its condition.
RecordStatus ==
    \E n \in DOMAIN Owner, c \in RecordStates \ {"absent"} :
        /\ bpfPrograms[n] # c
        /\ bpfPrograms' = [bpfPrograms EXCEPT ![n] = c]
        /\ opLast' = [kind |-> "env"]
        /\ UNCHANGED <<progFinalizer, conditions, agentVars, fnVars, appVars, concVars>>

\* A per-node record leaves the store.
RecordGone ==
    \E n \in DOMAIN Owner :
        /\ bpfPrograms[n] # "absent"
        /\ bpfPrograms' = [bpfPrograms EXCEPT ![n] = "absent"]
        /\ opLast' = [kind |-> "env"]
        /\ UNCHANGED <<progFinalizer, conditions, agentVars, fnVars, appVars, concVars>>

\* A racing status update leaves one more condition on the program.
StatusRace ==
    \E c \in {"ReconcileSuccess", "ReconcileError", "DeleteError"} :
        /\ c \notin Range(conditions)
        /\ conditions' = SetStatusCondition(conditions, c)
        /\ opLast' = [kind |-> "env"]
        /\ UNCHANGED <<progFinalizer, bpfPrograms, agentVars, fnVars, appVars, concVars>>

NextOp ==
    \/ Reconcile
    \/ RecordStatus
    \/ RecordGone
    \/ StatusRace

Spec == Init /\ [][Next]_vars

\* Reconciles of a record being deleted keep being run, and in the end one
\* runs in which every detach and the unload succeed.
SpecFair == Spec /\ WF_vars(ReconcileDeleteWith({}, TRUE))

\* Reconciles of a selected program keep being run, and in the end every
\* one of them finds the expansion and every RPC succeeding.
SpecRetry ==
    /\ Spec
    /\ WF_vars(ReconcileLoadWith(TRUE))
    /\ WF_vars(ReconcileLinksWith("none", {}))

\* Desired programs whose expansion holds the same attach point twice: an
\* interface listed twice, and two attach infos that both select eth0.
DupSpecs ==
    { <<AttachInfo(<<"eth0">>, None)>>,
      <<AttachInfo(<<"eth0", "eth0">>, None)>>,
      <<AttachInfo(<<"eth0">>, None), AttachInfo(<<"eth1", "eth0">>, None)>> }

InitDup ==
    /\ links = <<>>
    /\ programId = None
    /\ programLinkStatus = ""
    /\ exists = FALSE
    /\ finalizer = FALSE
    /\ deleting = FALSE
    /\ desired \in DupSpecs
    /\ containers \in ContainerInfos
    /\ rtLinks = {}
    /\ rtLoaded = FALSE
    /\ rpcHist = <<>>
    /\ budget = [fail |-> MaxFail, lost |-> MaxLost, change |-> MaxChanges,
                 unsaved |-> MaxUnsaved]
    /\ last = [kind |-> "init"]
    /\ InitOp /\ InitFn /\ InitNoApp /\ InitNoConc

\* The owning client edits the desired program's attach infos.
ChangeDup ==
    /\ ~deleting
    /\ budget.change > 0
    /\ desired' \in DupSpecs \ {desired}
    /\ budget' = [budget EXCEPT !.change = @ - 1]
    /\ last' = [kind |-> "env"]
    /\ UNCHANGED <<links, programId, programLinkStatus, exists, finalizer,
                   deleting, containers, rtLinks, rtLoaded, rpcHist>>
    /\ UNCHANGED <<opVars, fnVars, appVars, concVars>>

NextDup ==
    \/ ReconcileLoad
    \/ ReconcileLinks
    \/ ReconcileDelete
    \/ DeleteRequest
    \/ ChangeDup
    \/ LinkLost

SpecDup == InitDup /\ [][NextDup]_vars

\* The agent with status updates that can fail.
NextDrift == Next \/ ReconcileLinksUnsaved

SpecDrift == Init /\ [][NextDrift]_vars

SpecOp == Init /\ [][NextOp]_vars

-----------------------------------------------------------------------------
(* Expansion on its own: a selector, the containers of the node, and what  *)
(* the uprobe and the XDP reconciler expand them into.                     *)

\* The containers GetContainers can report.
NodeContainers ==
    { [podName |-> "p1", containerName |-> "c1", pid |-> 1],
      [podName |-> "p1", containerName |-> "c2", pid |-> 2],
      [podName |-> "p2", containerName |-> "c1", pid |-> 3] }

\* The lists of at most n different elements of S.
RECURSIVE ListsOf(_, _)
ListsOf(S, n) ==
    IF n = 0 THEN {<<>>}
    ELSE {<<>>} \cup {<<x>> \o l : x \in S, l \in ListsOf(S, n - 1)}

Distinct(l) == \A i, j \in DOMAIN l : i # j => l[i] # l[j]

\* What GetContainers returns: nil, or a list of containers.
ContainerLists ==
    {None} \cup {Some(l) : l \in {m \in ListsOf(NodeContainers, MaxContainers) :
                                    Distinct(m)}}

\* A pod selector (ContainerSelector / ClNetworkNamespaceSelector).
PodSelector == [Namespace |-> "ns", Pods |-> "app=web"]

ExpandInputs ==
    [kind     : {"input"},
     selector : {None, Some(PodSelector)},
     cinfo    : ContainerLists,
     ctrErr   : BOOLEAN,
     ifs      : {<<>>, <<"eth0">>, <<"eth0", "eth1">>},
     ifErr    : BOOLEAN]

\* The uprobe program of an input.
UprobeOf(in) ==
    [Target |-> "libc", FunctionName |-> "malloc", Containers |-> in.selector]

InitExpand ==
    InitAgent /\ InitOp /\ InitNoApp /\ InitNoConc /\ fn \in ExpandInputs

\* The uprobe reconciler expands the program and reconciles every expected
\* record.
ExpandUprobe ==
    /\ fn.kind = "input"
    /\ \E r \in {getExpectedBpfPrograms(UprobeOf(fn), fn.cinfo, fn.ctrErr)} :
           fn' = [kind  |-> "uprobe",
                  in    |-> fn,
                  out   |-> r,
                  calls |-> IF r.err THEN <<>> ELSE loadCalls(r.progs)]
    /\ UNCHANGED <<agentVars, opVars, appVars, concVars>>

\* The XDP reconciler expands one attach info into a program state without
\* links and reconciles the links.
ExpandXdp ==
    /\ fn.kind = "input"
    /\ \E r \in {getExpectedLinks(AttachInfo(fn.ifs, fn.selector), fn.cinfo,
                                  fn.ifErr, fn.ctrErr, {})} :
           fn' = [kind  |-> "xdp",
                  in    |-> fn,
                  out   |-> r,
                  calls |-> IF r.err THEN <<>>
                            ELSE processLinks(r.links, Some(1), {}, {}, {}).calls]
    /\ UNCHANGED <<agentVars, opVars, appVars, concVars>>

NextExpand == ExpandUprobe \/ ExpandXdp

SpecExpand == InitExpand /\ [][NextExpand]_vars

-----------------------------------------------------------------------------
(* Identity on its own: a stored link, an expected link, and what findLink *)
(* and updateLinks make of the pair.                                       *)

\* The values of the identity fields: interface, priority, namespace path
\* (a string, empty for none) and proceed-on list (nil, empty or not).
Identities ==
    [InterfaceName : {"eth0", "eth1"},
     Priority      : {0, 1},
     NetnsPath     : {<<>>, netnsPathFromPID(1)},
     ProceedOn     : {NilSlice, Slice(<<>>), Slice(<<"pass">>)}]

\* The values of the fields that are no part of the identity.
Bookkeeping ==
    [UUID         : {1, 2},
     LinkId       : {None, Some(1)},
     LinkStatus   : {"NotAttached", "AttachSuccess"},
     ShouldAttach : BOOLEAN]

\* The link of identity id and bookkeeping bk.
LinkOf(id, bk) ==
    [ShouldAttach  |-> bk.ShouldAttach,
     UUID          |-> bk.UUID,
     LinkId        |-> bk.LinkId,
     LinkStatus    |-> bk.LinkStatus,
     InterfaceName |-> id.InterfaceName,
     NetnsPath     |-> id.NetnsPath,
     Priority      |-> id.Priority,
     ProceedOn     |-> id.ProceedOn]

\* A stored link, and an expected link as getExpectedLinks builds it.
StoredLinks == {LinkOf(id, bk) : id \in Identities, bk \in Bookkeeping}
ExpectedLinks ==
    {[NewLink(id.InterfaceName, id.NetnsPath, id) EXCEPT !.UUID = 3] :
        id \in Identities}

InitIdentity ==
    /\ InitAgent /\ InitOp /\ InitNoApp /\ InitNoConc
    /\ fn \in [kind : {"pair"}, a : StoredLinks, b : ExpectedLinks]

\* The test of findLink on the pair, either way round.
CompareLinks ==
    /\ fn.kind = "pair"
    /\ fn' = [kind |-> "compared", a |-> fn.a, b |-> fn.b,
              eq   |-> SameLink(fn.a, fn.b),
              rev  |-> SameLink(fn.b, fn.a)]
    /\ UNCHANGED <<agentVars, opVars, appVars, concVars>>

\* updateLinks on the stored link with the expected link for the one link
\* the expansion produces.
FindAndMerge ==
    /\ fn.kind = "pair"
    /\ fn' = [kind  |-> "merged", a |-> fn.a, b |-> fn.b,
              index |-> findLink(<<fn.a>>, fn.b),
              links |-> MergeExpected(
                            <<[fn.a EXCEPT !.ShouldAttach = FALSE]>>,
                            <<fn.b>>)]
    /\ UNCHANGED <<agentVars, opVars, appVars, concVars>>

NextIdentity == CompareLinks \/ FindAndMerge

SpecIdentity == InitIdentity /\ [][NextIdentity]_vars

-----------------------------------------------------------------------------
(* Composite applications: BpfApplicationReconciler.Reconcile.             *)

\* The sub-programs an application can declare: a fentry program, an XDP
\* program with an interface selector, and one of a type the agent does
\* not know.
FentryProg ==
    [Type |-> "Fentry", FunctionName |-> "do_unlinkat",
     BpfFunctionName |-> "test_fentry"]
XdpProg ==
    [Type |-> "XDP", BpfFunctionName |-> "xdp_pass",
     InterfaceSelector |-> [Interfaces |-> <<"eth0">>, NetNs |-> <<>>]]
OtherProg == [Type |-> "Other"]

AppPrograms == {FentryProg, XdpProg, OtherProg}

\* strings.ToLower on a program type.
ToLower(type) ==
    CASE type = "Fentry" -> "fentry"
      [] type = "XDP" -> "xdp"
      [] OTHER -> "other"

\* buildProgramName
buildProgramName(app, prog) == <<app.Name, "-", ToLower(prog.Type)>>

\* The appProgramId label of a sub-program.
appProgramId(p) ==
    CASE p.Type = "Fentry" ->
             <<ToLower(p.Type), sanitize(p.FunctionName), p.BpfFunctionName>>
      [] p.Type = "XDP" -> <<ToLower(p.Type), p.BpfFunctionName>>

\* reconcileCommon for one sub-program: complete unless the pass has to
\* stop at it; a completed sub-program has its per-node record.
reconcileCommon(records, a, p, stop) ==
    IF stop = <<a.Name, p.Type>>
    THEN [complete |-> FALSE, records |-> records]
    ELSE [complete |-> TRUE,
          records  |-> records \cup {[owner |-> a.Name, id |-> appProgramId(p)]}]

\* The body of the loop over a.Spec.Programs for sub-program p.  acc carries
\* the records in the store, complete, appProgramMap, and what the pass has
\* reconciled, skipped, cleaned up and unloaded so far.
ProgStep(acc, a, p, env) ==
    LET skip == [acc EXCEPT !.skipped = @ \cup {<<a.Name, p.Type>>}]
        run == The({[acc EXCEPT
                        !.map = @ \cup {appProgramId(p)},
                        !.records = rc.records,
                        !.complete = rc.complete,
                        !.returned = ~rc.complete,
                        !.reconciled = @ \cup {<<a.Name, p.Type>>}] :
                      rc \in {reconcileCommon(acc.records, a, p, env.stop)}})
    IN  CASE p.Type = "Fentry" -> run
          [] p.Type = "XDP" ->
                 IF getInterfaces(p.InterfaceSelector, env.ifErr).err
                 THEN skip ELSE run
          [] OTHER -> skip

RECURSIVE ProgLoop(_, _, _, _)
ProgLoop(acc, a, j, env) ==
    IF j > Len(a.Programs) \/ acc.returned THEN acc
    ELSE The({ProgLoop(next, a, j + 1, env) :
                next \in {ProgStep(acc, a, a.Programs[j], env)}})

\* A clean-up that finds nothing to delete.
staleRecordsNone(records, a, appProgramMap) == {}

\* The records the clean-up deletes: owned by the application, with an
\* appProgramId that is not in appProgramMap.
staleRecords(records, a, appProgramMap) ==
    {r \in records : r.owner = a.Name /\ r.id \notin appProgramMap}

\* A pass that goes on to the clean-up whatever complete holds.
afterProgramsAlways(acc) == acc

\* What follows the loop over the sub-programs: the pass goes on to the
\* clean-up when complete holds and returns when it does not.
afterPrograms(acc) ==
    IF acc.complete THEN acc ELSE [acc EXCEPT !.returned = TRUE]

\* The body of the loop over the applications: the sub-programs, then,
\* when complete holds, the clean-up.
AppStep(acc, a, env) ==
    The({IF after.returned THEN after
         ELSE IF env.cleanFail = a.Name
         THEN [after EXCEPT !.returned = TRUE, !.cleanErr = TRUE]
         ELSE The({[after EXCEPT !.records = @ \ del,
                                 !.unloaded = @ \cup del,
                                 !.cleaned = @ \cup {a.Name}] :
                     del \in {staleRecords(after.records, a, after.map)}}) :
           after \in {afterPrograms(ProgLoop([acc EXCEPT !.map = {}], a, 1, env))}})

RECURSIVE AppLoop(_, _, _, _)
AppLoop(acc, as, i, env) ==
    IF i > Len(as) \/ acc.returned THEN acc
    ELSE The({AppLoop(next, as, i + 1, env) :
                next \in {AppStep(acc, as[i], env)}})

\* The lists of sub-programs an application can declare: at least one, each
\* type once.
ProgramLists ==
    {l \in ListsOf(AppPrograms, MaxProgs) : l # <<>> /\ Distinct(l)}

AppNames == <<"app1", "app2">>

InitApp ==
    /\ InitAgent /\ desired = <<>> /\ InitOp /\ InitFn /\ InitNoConc
    /\ apps \in {[i \in DOMAIN AppNames |-> [Name |-> AppNames[i], Programs |-> f[i]]] :
                   f \in [DOMAIN AppNames -> ProgramLists]}
    /\ appRecords = {}
    /\ appBudget = MaxAppChanges
    /\ appLast = [kind |-> "init"]

\* BpfApplicationReconciler.Reconcile: every application, every sub-program.
\* stop is the sub-program reconcileCommon does not complete, ifErr the
\* failure of getInterfaces, cleanFail the application whose clean-up fails.
ReconcileApplications ==
    \E stop \in {<<>>} \cup {<<apps[i].Name, p.Type>> :
                               i \in DOMAIN apps, p \in {FentryProg, XdpProg}},
       ifErr \in BOOLEAN, cleanFail \in {""} \cup Range(AppNames) :
        /\ Len(apps) # 0
        /\ \E done \in {AppLoop([records |-> appRecords, complete |-> FALSE,
                                  map |-> {}, reconciled |-> {},
                                  skipped |-> {}, cleaned |-> {},
                                  unloaded |-> {}, returned |-> FALSE,
                                  cleanErr |-> FALSE],
                                 apps, 1,
                                 [stop |-> stop, ifErr |-> ifErr,
                                  cleanFail |-> cleanFail])} :
               /\ appRecords' = done.records
               /\ appLast' = [kind       |-> "pass",
                              before     |-> appRecords,
                              ifErr      |-> ifErr,
                              reconciled |-> done.reconciled,
                              skipped    |-> done.skipped,
                              cleaned    |-> done.cleaned,
                              unloaded   |-> done.unloaded,
                              stopped    |-> \E q \in done.reconciled : q = stop,
                              cleanErr   |-> done.cleanErr]
        /\ UNCHANGED <<apps, appBudget, agentVars, opVars, fnVars, concVars>>

\* The owning client edits the sub-programs of an application.
ChangeApp ==
    /\ appBudget > 0
    /\ \E i \in DOMAIN apps :
           \E l \in ProgramLists \ {apps[i].Programs} :
               apps' = [apps EXCEPT ![i].Programs = l]
    /\ appBudget' = appBudget - 1
    /\ appLast' = [kind |-> "env"]
    /\ UNCHANGED <<appRecords, agentVars, opVars, fnVars, concVars>>

NextApp == ReconcileApplications \/ ChangeApp

SpecApp == InitApp /\ [][NextApp]_vars

-----------------------------------------------------------------------------
(* Expansion without a namespace selector: the interfaces' own namespaces. *)

\* The interfaces of the node and the namespace paths they are found in.
NodeInterfaces == {"eth0", "eth1", "eth2"}
NetnsPaths == {netnsPathFromPID(1), netnsPathFromPID(2)}

\* The namespaces of the interfaces: for some interfaces a list of
\* namespace paths, possibly empty.
NetNsMaps ==
    UNION {[S -> {l \in ListsOf(NetnsPaths, MaxNetns) : Distinct(l)}] :
              S \in SUBSET NodeInterfaces}

FanOutInputs ==
    [kind  : {"fanin"},
     ifs   : {<<"eth0">>, <<"eth1", "eth0">>, <<"eth0", "eth1", "eth2">>},
     netns : NetNsMaps]

\* An attach info without a namespace selector whose interfaces are found
\* in the namespaces m.
AttachInfoIn(ifs, m) ==
    [AttachInfo(ifs, None) EXCEPT !.InterfaceSelector.NetNs = m]

InitFanOut ==
    InitAgent /\ desired = <<>> /\ InitOp /\ InitNoApp /\ InitNoConc
    /\ fn \in FanOutInputs

\* getExpectedLinks on an attach info without a namespace selector.
ExpandFanOut ==
    /\ fn.kind = "fanin"
    /\ \E r \in {getExpectedLinks(AttachInfoIn(fn.ifs, fn.netns), None,
                                  FALSE, FALSE, {})} :
           fn' = [kind |-> "fanout", in |-> fn, out |-> r]
    /\ UNCHANGED <<agentVars, opVars, appVars, concVars>>

NextFanOut == ExpandFanOut

SpecFanOut == InitFanOut /\ [][NextFanOut]_vars

-----------------------------------------------------------------------------
(* Expansion with a namespace selector: one link per interface and pod.    *)

PodInputs ==
    [kind      : {"podin"},
     ifs       : {<<"eth0">>, <<"eth1", "eth0">>},
     cinfo     : ContainerLists,
     Priority  : {0, 1},
     ProceedOn : {NilSlice, Slice(<<"pass">>)}]

\* The attach info of an input: a namespace selector, a priority and a
\* proceed-on list.
AttachInfoOf(in) ==
    [AttachInfo(in.ifs, Some(PodSelector)) EXCEPT
        !.Priority = in.Priority, !.ProceedOn = in.ProceedOn]

InitPods ==
    InitAgent /\ desired = <<>> /\ InitOp /\ InitNoApp /\ InitNoConc
    /\ fn \in PodInputs

\* getExpectedLinks on an attach info with a namespace selector.
ExpandPods ==
    /\ fn.kind = "podin"
    /\ \E r \in {getExpectedLinks(AttachInfoOf(fn), fn.cinfo, FALSE, FALSE,
                                  {})} :
           fn' = [kind |-> "podout", in |-> fn, out |-> r]
    /\ UNCHANGED <<agentVars, opVars, appVars, concVars>>

NextPods == ExpandPods

SpecPods == InitPods /\ [][NextPods]_vars

-----------------------------------------------------------------------------
(* Scheduling: the work queue and the workers of one controller, and the   *)
(* reconciler they share.                                                  *)

\* A controller built with two workers.
MaxConcurrentReconcilesTwo(options) == 2

\* The workers of a controller: one unless the builder is given options.
MaxConcurrentReconciles(options) ==
    IF options = None THEN 1 ELSE options[1]

\* SetupWithManager builds the controller without options.
Workers == 1..MaxConcurrentReconciles(None)

\* The request keys: two applications and the node.
RequestKeys == {"app1", "app2", "node1"}

InitConc ==
    /\ InitAgent /\ desired = <<>> /\ InitOp /\ InitFn /\ InitNoApp
    /\ conc = [kind  |-> "run",
               queue |-> {},
               dirty |-> {},
               busy  |-> [w \in Workers |-> ""],
               pc    |-> [w \in Workers |-> "idle"],
               cur   |-> "",
               torn  |-> FALSE]

\* A change event: the key is queued, or marked dirty while a worker has it.
Enqueue ==
    \E k \in RequestKeys :
        /\ conc' = IF k \in Range(conc.busy)
                   THEN [conc EXCEPT !.dirty = @ \cup {k}]
                   ELSE [conc EXCEPT !.queue = @ \cup {k}]
        /\ UNCHANGED <<agentVars, opVars, fnVars, appVars>>

\* An idle worker takes a key off the queue and calls Reconcile.
StartReconcile ==
    \E w \in Workers, k \in conc.queue :
        /\ conc.busy[w] = ""
        /\ conc' = [conc EXCEPT !.queue = @ \ {k},
                                !.busy[w] = k,
                                !.pc[w] = "enter"]
        /\ UNCHANGED <<agentVars, opVars, fnVars, appVars>>

\* Reconcile sets the reconciler's current program and node.
EnterReconcile ==
    \E w \in Workers :
        /\ conc.pc[w] = "enter"
        /\ conc' = [conc EXCEPT !.cur = conc.busy[w], !.pc[w] = "links"]
        /\ UNCHANGED <<agentVars, opVars, fnVars, appVars>>

\* processLinks sets the current link and reconciles it through the
\* reconciler's fields: torn when they hold another invocation's values.
ProcessLinksStep ==
    \E w \in Workers :
        /\ conc.pc[w] = "links"
        /\ conc' = [conc EXCEPT !.torn = @ \/ conc.cur # conc.busy[w],
                                !.pc[w] = "save"]
        /\ UNCHANGED <<agentVars, opVars, fnVars, appVars>>

\* Reconcile returns: the key is done, and queued again when it is dirty.
FinishReconcile ==
    \E w \in Workers :
        /\ conc.pc[w] = "save"
        /\ conc' = [conc EXCEPT
                       !.queue = IF conc.busy[w] \in conc.dirty
                                 THEN @ \cup {conc.busy[w]} ELSE @,
                       !.dirty = @ \ {conc.busy[w]},
                       !.busy[w] = "",
                       !.pc[w] = "idle"]
        /\ UNCHANGED <<agentVars, opVars, fnVars, appVars>>

NextConc ==
    \/ Enqueue
    \/ StartReconcile
    \/ EnterReconcile
    \/ ProcessLinksStep
    \/ FinishReconcile

SpecConc == InitConc /\ [][NextConc]_vars

-----------------------------------------------------------------------------
(* The link engine: idempotence, identity, attach accounting.              *)

\* The most recent step was a link reconcile, a reconcile of any kind.
AfterLinks == last.kind = "links"
AfterPass == last.kind \in {"links", "delete", "gone"}

\* The links the runtime holds for a UUID.
LiveFor(u) == {l \in rtLinks : l.uuid = u}

\* C1 as the specification states it: a link reconcile that directly follows
\* a link reconcile, with nothing changed in between, leaves the collection
\* as it was and issues no attach and no detach RPC.
C1_AsStated ==
    [][(AfterLinks /\ last'.kind = "links")
          => (links' = links /\ last'.calls = <<>>)]_vars

\* C1 amended: a link reconcile that directly follows a link reconcile which
\* returned no error, with nothing changed in between, leaves the collection
\* as it was and issues no attach and no detach RPC.  After a run in which
\* an RPC failed the next run retries it.
C1_Idempotence ==
    [][(AfterLinks /\ last.lastErr = 0 /\ last'.kind = "links")
          => (links' = links /\ last'.calls = <<>>)]_vars

\* A second run right after an error-free first one, over three links.
C1_Witness ==
    AfterLinks /\ last.rerun /\ ~last.prevErr /\ Len(links) = 3

\* What updateLinks makes of the current state when the expansion succeeds.
Rerun == updateLinks(links, FALSE, desired, containers, FALSE, FALSE, UsedUUIDs)

\* C2: when a re-run of the expansion produces a link identity-equal to a
\* stored one, updateLinks keeps the stored link with its UUID and LinkId and
\* the expected link's fresh UUID is not stored; and over any step a stored
\* link that stays in the collection keeps its UUID.
C2_KeepsStored ==
    (exists /\ ~deleting /\ programId # None) =>
        \A k \in DOMAIN Rerun.expected :
            LET i == findLink(links, Rerun.expected[k])
            IN  i # 0 =>
                  /\ Rerun.links[i].UUID = links[i].UUID
                  /\ Rerun.links[i].LinkId = links[i].LinkId
                  /\ Rerun.expected[k].UUID \notin UUIDsOf(Rerun.links)
C2_UUIDStable ==
    \A i \in DOMAIN links : \A j \in DOMAIN links' :
        SameLink(links[i], links'[j]) => links'[j].UUID = links[i].UUID
C2_StableIdentity == []C2_KeepsStored /\ [][C2_UUIDStable]_vars

\* A re-run found its attached links again and kept them.
C2_Witness ==
    /\ AfterLinks /\ last.rerun /\ last.calls = <<>>
    /\ \E i \in DOMAIN links : links[i].LinkId # None /\ links[i].ShouldAttach

C3_OneLiveLink ==
    \A i \in DOMAIN links :
        LET u == links[i].UUID
        IN  /\ Cardinality(LiveFor(u)) <= 1
            /\ links[i].LinkId # None => rpcHist[u].attaches >= 1
            /\ (links[i].LinkId # None /\ LiveFor(u) # {}) =>
                  /\ rpcHist[u].sinceLoss = 1
                  /\ LiveFor(u) = {[id |-> links[i].LinkId[1], uuid |-> u]}
C3_NoAttachWhileLive ==
    AfterPass' =>
        \A k \in DOMAIN last'.calls :
            last'.calls[k].rpc = "attach" => LiveFor(last'.calls[k].uuid) = {}
C4_FailureIsolated ==
    (AfterLinks /\ Cardinality(last.fails) = 1 /\ last.fails \subseteq last.need)
    => /\ last.need \subseteq UUIDsOf(links)
       /\ \A i \in DOMAIN links :
            /\ links[i].UUID \in last.need \ last.fails =>
                  /\ links[i].LinkId # None
                  /\ links[i].LinkStatus = "AttachSuccess"
            /\ links[i].UUID \in last.fails =>
                  links[i].LinkStatus = "AttachError"
       /\ programLinkStatus = "Error"

\* Three links to attach, the first one fails, the two behind it attach.
C4_Witness ==
    /\ AfterLinks /\ Cardinality(last.need) = 3 /\ Len(links) = 3
    /\ last.fails = {links[1].UUID}
    /\ links[1].LinkStatus = "AttachError"
    /\ links[2].LinkStatus = "AttachSuccess"
    /\ links[3].LinkStatus = "AttachSuccess"
    /\ programLinkStatus = "Error"

-----------------------------------------------------------------------------
(* Deletion.                                                               *)

\* C5: the unload RPC is issued only once the collection is empty (and the
\* runtime holds no link of the program any more), the finalizer is removed
\* only in a reconcile whose unload of a loaded program succeeded, and the
\* finalizer is never absent while a program id or a LinkId is recorded.
C5_UnloadWhenEmpty ==
    /\ (last.kind \in {"delete", "gone"} /\ last.unload) =>
          (links = <<>> /\ rtLinks = {})
    /\ ~finalizer =>
          /\ programId = None
          /\ \A i \in DOMAIN links : links[i].LinkId = None
          /\ ~rtLoaded
C5_FinalizerAfterUnload ==
    (finalizer /\ ~finalizer') =>
        /\ last'.kind = "gone"
        /\ links' = <<>>
        /\ programId # None => last'.unloadOk
C6_Gone ==
    /\ ~exists /\ ~finalizer /\ links = <<>> /\ programId = None
    /\ ~rtLoaded /\ rtLinks = {}
C6_ConvergesOnDeletion == deleting ~> C6_Gone

\* A record that had links to detach is gone.
C6_Witness ==
    /\ deleting /\ C6_Gone /\ last.kind = "gone"
    /\ \E k \in DOMAIN last.calls : last.calls[k].rpc = "detach"

-----------------------------------------------------------------------------
(* Link status.                                                            *)

\* C7 as the specification states it: every stored link with a LinkId has
\* LinkStatus AttachSuccess.
C7_AsStated ==
    \A i \in DOMAIN links :
        links[i].LinkId # None => links[i].LinkStatus = "AttachSuccess"

\* C7 amended: every stored link with a LinkId has LinkStatus AttachSuccess
\* or AttachError, and it is AttachError exactly when the latest RPC issued
\* for it, a detach or an attach that replaces a lost link, failed.
C7_AttachedStatus ==
    \A i \in DOMAIN links :
        links[i].LinkId # None =>
            /\ links[i].LinkStatus \in {"AttachSuccess", "AttachError"}
            /\ (links[i].LinkStatus = "AttachError")
                   <=> ~rpcHist[links[i].UUID].lastOk

\* A link whose detach failed: kept, with its LinkId, as AttachError.
C7_Witness ==
    \E i \in DOMAIN links :
        /\ links[i].LinkId # None
        /\ ~links[i].ShouldAttach
        /\ links[i].LinkStatus = "AttachError"
        /\ LiveFor(links[i].UUID) # {}

\* C8 as the specification states it: after a pass the aggregate link status
\* is Success exactly when every stored link has ShouldAttach = (LinkId set).
C8_AsStated ==
    AfterPass =>
        ((programLinkStatus = "Success")
            <=> \A i \in DOMAIN links :
                   links[i].ShouldAttach = (links[i].LinkId # None))

-----------------------------------------------------------------------------
(* The operator's status.                                                  *)

\* The operator's most recent step was a reconcile that settled the status.
AfterStatus == opLast.kind = "status"

\* Every per-node record the program owns reports Loaded.
AllLoaded ==
    \A n \in DOMAIN Owner :
        (Owner[n] = ProgName /\ bpfPrograms[n] # "absent")
            => bpfPrograms[n] = "Loaded"

\* C9: after a reconcile that settles the status the program carries exactly
\* one condition, ReconcileSuccess or ReconcileError, also when it entered
\* the reconcile with several; it is ReconcileSuccess when every per-node
\* record succeeded.
C9_OneCondition ==
    AfterStatus =>
        /\ Len(conditions) = 1
        /\ conditions[1] = opLast.cond
        /\ conditions[1] \in {"ReconcileSuccess", "ReconcileError"}
        /\ AllLoaded => conditions = <<"ReconcileSuccess">>

\* The program entered with DeleteError and ReconcileError and is left with
\* ReconcileSuccess alone.
C9_Witness ==
    /\ AfterStatus /\ opLast.entered = 2 /\ opLast.wrote
    /\ conditions = <<"ReconcileSuccess">>
    /\ bpfPrograms["prog-node1"] = "Loaded"

-----------------------------------------------------------------------------
(* Shrinking selectors, retries and partial progress.                      *)

\* Stored link i is one the expansion of the desired program no longer
\* produces.
NotExpected(i) ==
    \A k \in DOMAIN Rerun.expected : ~SameLink(links[i], Rerun.expected[k])

\* The calls of kind rpc the latest pass issued for UUID u.
CallsFor(calls, rpc, u) ==
    {k \in DOMAIN calls : calls[k].rpc = rpc /\ calls[k].uuid = u}

\* What C11 asks of the pass for stored link i.
DetachedOnce(i) ==
    LET u == links[i].UUID
    IN  /\ Cardinality(CallsFor(last'.calls, "detach", u)) = 1
        /\ CallsFor(last'.calls, "attach", u) = {}
        /\ IF last'.calls[CHOOSE k \in CallsFor(last'.calls, "detach", u) :
                              TRUE].ok
           THEN u \notin UUIDsOf(links') /\ (Len(links) = 1 => links' = <<>>)
           ELSE \E j \in DOMAIN links' :
                    links'[j].UUID = u /\ ~links'[j].ShouldAttach

-----------------------------------------------------------------------------
(* Selectors that match no container.                                      *)

\* An expansion ran without error for a selector that matched no container.
MatchedNone ==
    /\ fn.kind \in {"uprobe", "xdp"}
    /\ fn.in.selector # None
    /\ ~fn.out.err
    /\ (fn.in.cinfo = None \/ fn.in.cinfo[1] = <<>>)

\* The expansion is the one sentinel record.
OneSentinel ==
    /\ Len(fn.out.progs) = 1
    /\ UprobeNoContainersOnNode \in DOMAIN fn.out.progs[1].annotations
    /\ fn.out.progs[1].annotations[UprobeNoContainersOnNode] = "true"

-----------------------------------------------------------------------------
(* Retries.                                                                *)

\* Every stored link is attached exactly when it should be.
LinksSettled ==
    /\ exists /\ programId # None
    /\ \A i \in DOMAIN links :
           links[i].ShouldAttach = (links[i].LinkId # None)

\* C13 as the specification states it: while reconciles keep being run and
\* in the end the RPCs succeed and the desired program stays as it is,
\* every link ends up attached exactly when it should be and the aggregate
\* status ends up Success.
C13_AsStated ==
    <>[](deleting \/ (LinksSettled /\ programLinkStatus = "Success"))

\* The part of C13 about the links: in the end every stored link is
\* attached exactly when it should be, and the runtime holds its link.
C13_LinksConverge ==
    <>[](deleting \/ (LinksSettled
                      /\ \A i \in DOMAIN links : LiveFor(links[i].UUID) # {}))

\* Every link is attached as it should be, every RPC succeeds from now on,
\* and the aggregate status is Error.
C13_Stuck ==
    /\ AfterLinks /\ ~deleting /\ LinksSettled /\ links # <<>>
    /\ budget.fail = 0 /\ budget.change = 0
    /\ last.calls = <<>> /\ last.rerun /\ programLinkStatus = "Error"

\* The attach RPC of the pass l for the link of UUID u failed.
AttachFailed(l, u) ==
    \E k \in DOMAIN l.calls :
        l.calls[k].rpc = "attach" /\ l.calls[k].uuid = u /\ ~l.calls[k].ok

\* The LinkStatus values the links ls hold for UUID u.
StatusOf(ls, u) == {ls[i].LinkStatus : i \in {j \in DOMAIN ls : ls[j].UUID = u}}

\* C14: when the attach of one link fails in two link reconciles in a row,
\* its LinkStatus is AttachError after each of them, the aggregate status is
\* Error after each of them, and each of them issued exactly one attach RPC
\* for that link.
C14_FailsTwice ==
    [][(last.kind = "links" /\ last'.kind = "links") =>
          \A u \in UUIDsOf(links') :
              (AttachFailed(last, u) /\ AttachFailed(last', u)) =>
                  /\ StatusOf(links, u) = {"AttachError"}
                  /\ StatusOf(links', u) = {"AttachError"}
                  /\ programLinkStatus = "Error"
                  /\ programLinkStatus' = "Error"
                  /\ Cardinality(CallsFor(last.calls, "attach", u)) = 1
                  /\ Cardinality(CallsFor(last'.calls, "attach", u)) = 1]_vars

\* The attach of one link has just failed for the second time in a row.
C14_Witness ==
    /\ AfterLinks
    /\ \E u \in last.prevFailed :
           /\ AttachFailed(last, u)
           /\ StatusOf(links, u) = {"AttachError"}
    /\ programLinkStatus = "Error"

-----------------------------------------------------------------------------
(* Partial progress.                                                       *)

\* The UUIDs whose RPC of kind rpc succeeded in the latest pass.
Succeeded(rpc) ==
    {c.uuid : c \in {d \in Range(last.calls) : d.rpc = rpc /\ d.ok}}

\* The latest pass was a link pass that returned an error.
PassFailed == last.kind \in {"links", "delete"} /\ last.lastErr # 0

\* C15: after a link pass that returned an error, the stored collection
\* holds, for every attach that succeeded in the pass, the link with the
\* handle the runtime returned, and holds no link whose detach succeeded.
C15_PartialProgressKept ==
    PassFailed =>
        /\ \A u \in Succeeded("attach") :
               \E i \in DOMAIN links :
                   /\ links[i].UUID = u
                   /\ links[i].LinkId # None
                   /\ [id |-> links[i].LinkId[1], uuid |-> u] \in rtLinks
        /\ \A u \in Succeeded("detach") :
               /\ u \notin UUIDsOf(links)
               /\ LiveFor(u) = {}

\* A pass returned an error after one attach and one detach succeeded.
C15_Witness ==
    /\ PassFailed
    /\ Succeeded("attach") # {} /\ Succeeded("detach") # {}
    /\ Succeeded("attach") \subseteq UUIDsOf(links)

-----------------------------------------------------------------------------
(* The kernel program id.                                                  *)

-----------------------------------------------------------------------------
(* Identity.                                                               *)

\* Links a and b agree in interface, priority and namespace path, and their
\* proceed-on lists have the same elements, nil or not.
SameUpToNil(a, b) ==
    /\ a.InterfaceName = b.InterfaceName
    /\ a.Priority = b.Priority
    /\ a.NetnsPath = b.NetnsPath
    /\ a.ProceedOn.elems = b.ProceedOn.elems

\* C17 as the specification states it: a stored link and an expected link
\* that differ in nothing but a nil against an empty proceed-on list are
\* the same link to findLink: the stored link is found and marked, nothing
\* is appended.
C17_AsStated ==
    (fn.kind = "merged" /\ SameUpToNil(fn.a, fn.b)) =>
        /\ fn.index = 1
        /\ Len(fn.links) = 1
        /\ fn.links[1].UUID = fn.a.UUID /\ fn.links[1].ShouldAttach

\* What does hold: findLink finds the stored link exactly when the two
\* agree in every identity field, nil told from empty; when it does not,
\* the expected link is appended and the stored one left not to be attached.
C17_DeepEqual ==
    fn.kind = "merged" =>
        IF SameUpToNil(fn.a, fn.b)
           /\ fn.a.ProceedOn.isNil = fn.b.ProceedOn.isNil
        THEN fn.index = 1 /\ Len(fn.links) = 1 /\ fn.links[1].ShouldAttach
        ELSE /\ fn.index = 0
             /\ fn.links = <<[fn.a EXCEPT !.ShouldAttach = FALSE], fn.b>>

\* A stored link with a nil proceed-on list met the expected link with an
\* empty one, and the expected link was appended.
C17_Churn ==
    /\ fn.kind = "merged" /\ SameUpToNil(fn.a, fn.b)
    /\ fn.a.ProceedOn = NilSlice /\ fn.b.ProceedOn = Slice(<<>>)
    /\ fn.a.LinkId # None
    /\ Len(fn.links) = 2 /\ ~fn.links[1].ShouldAttach

-----------------------------------------------------------------------------
(* Composite applications.                                                 *)

\* The appProgramIds the specification of application a produces.
SpecIds(a) ==
    {appProgramId(p) : p \in {q \in Range(a.Programs) :
                                 q.Type \in {"Fentry", "XDP"}}}

\* Every sub-program of application a was reconciled to completion by the
\* latest pass, and its clean-up did not fail.
AllCompleted(a) ==
    /\ appLast.kind = "pass"
    /\ \A p \in Range(a.Programs) : <<a.Name, p.Type>> \in appLast.reconciled
    /\ ~(appLast.stopped \/ appLast.cleanErr)

ConfigError(p) ==
    \/ p.Type \notin {"Fentry", "XDP"}
    \/ p.Type = "XDP" /\ appLast.ifErr

\* C20 as the specification states it: a pass in which every reconcile and
\* every clean-up succeeds skips the sub-programs with a configuration error
\* and reconciles every other sub-program of every application.
C20_AsStated ==
    (appLast.kind = "pass" /\ ~appLast.stopped /\ ~appLast.cleanErr) =>
        \A i \in DOMAIN apps : \A p \in Range(apps[i].Programs) :
            IF ConfigError(p)
            THEN <<apps[i].Name, p.Type>> \in appLast.skipped
            ELSE <<apps[i].Name, p.Type>> \in appLast.reconciled

\* What does hold: the siblings of a skipped sub-program are reconciled, and
\* so are the later applications once one sub-program before them completed.
C20_SiblingsReconciled ==
    (appLast.kind = "pass" /\ ~appLast.stopped /\ ~appLast.cleanErr) =>
        \A i \in DOMAIN apps :
            (\A k \in 1..(i - 1) : \E q \in appLast.reconciled : q[1] = apps[k].Name)
            => \A p \in Range(apps[i].Programs) :
                   IF ConfigError(p)
                   THEN <<apps[i].Name, p.Type>> \in appLast.skipped
                   ELSE <<apps[i].Name, p.Type>> \in appLast.reconciled

\* The only sub-program of the first application was skipped and the pass
\* returned without reconciling the second application.
C20_LaterAppDropped ==
    /\ appLast.kind = "pass" /\ ~appLast.stopped /\ ~appLast.cleanErr
    /\ apps[1].Programs = <<OtherProg>> /\ apps[2].Programs = <<FentryProg>>
    /\ appLast.skipped = {<<"app1", "Other">>}
    /\ appLast.reconciled = {} /\ appLast.cleaned = {}

-----------------------------------------------------------------------------
(* Operator: requests, finalizer and status.                               *)

\* The latest step was an operator reconcile.
AfterReconcile == opLast.kind \notin {"init", "env"}

\* C21: an operator reconcile triggered by a per-node record that exists
\* but has no controller owner reference returns an error and changes no
\* finalizer, no condition and no record; a reconcile of the program itself
\* can still be run right after it.
C21_OwnerlessAborts ==
    /\ [][(opLast'.kind \notin {"init", "env"} /\ opLast'.ownerless) =>
              /\ opLast'.kind = "ownerError"
              /\ progFinalizer' = progFinalizer
              /\ conditions' = conditions
              /\ bpfPrograms' = bpfPrograms]_vars
    /\ []((AfterReconcile /\ opLast.kind = "ownerError")
              => ENABLED <<ReconcileKey(ProgName, FALSE)>>_vars)

\* The reconcile of a record without owner reference has just been aborted
\* on a program that has its finalizer and its condition.
C21_Witness ==
    /\ AfterReconcile /\ opLast.kind = "ownerError" /\ opLast.ownerless
    /\ progFinalizer /\ conditions = <<"ReconcileSuccess">>
    /\ bpfPrograms["orphan-node1"] = "Loaded"

-----------------------------------------------------------------------------
(* Scheduling.                                                             *)

-----------------------------------------------------------------------------
(* Drift between the stored collection and the runtime.                    *)

\* The runtime's links held by the record of UUID u.
RuntimeLinksOf(u) == {l \in rtLinks : l.uuid = u}

\* The runtime's links no stored record holds the handle of.
Orphans == {l \in rtLinks : \A i \in DOMAIN links : links[i].LinkId # Some(l.id)}

\* A reconcile of the links just ran, saved, and no RPC failed.
CleanPass == last.kind = "links" /\ last.lastErr = 0

\* C23 (as stated): after a reconcile in which nothing failed, whatever the
\* drift before it, each expected record has exactly one link in the
\* runtime and the runtime holds no link without a record.
C23_AsStated ==
    CleanPass =>
        /\ \A i \in DOMAIN links :
               links[i].ShouldAttach
                   => Cardinality(RuntimeLinksOf(links[i].UUID)) = 1
        /\ Orphans = {}

\* What the reconcile does heal: after a reconcile in which nothing failed
\* every stored record holds a handle the runtime reports.
C23_StoredHandlesLive ==
    CleanPass =>
        \A i \in DOMAIN links :
            /\ links[i].ShouldAttach
            /\ links[i].LinkId # None
            /\ doesLinkExist(rtLinks, links[i].LinkId[1])

\* A link attached by an unsaved reconcile is still in the runtime, held by
\* no record, after a later reconcile in which nothing failed.
C23_OrphanStays == CleanPass /\ Orphans # {} /\ links # <<>>

-----------------------------------------------------------------------------
(* The operator's finalizer.                                               *)

\* C24: a reconcile of a program that lacks the operator's finalizer adds
\* the finalizer, writes no condition and asks for no requeue; a reconcile
\* settles the status only when it finds the finalizer present; the
\* conditions of a program without the finalizer are changed by no reconcile
\* and the finalizer, once added, stays.
C24_FinalizerFirst ==
    [][/\ (~progFinalizer /\ opLast'.kind \in {"finalizer", "status", "requeue"})
            => /\ opLast'.kind = "finalizer"
               /\ progFinalizer'
               /\ conditions' = conditions
       /\ opLast'.kind = "status" => progFinalizer
       /\ (~progFinalizer /\ conditions' # conditions) => opLast'.kind = "env"
       /\ progFinalizer => progFinalizer']_vars

\* The first reconcile added the finalizer and left the program without a
\* condition although every record it owns reports Loaded.
C24_Witness ==
    /\ opLast.kind = "finalizer"
    /\ progFinalizer
    /\ conditions = <<>>
    /\ bpfPrograms["prog-node1"] = "Loaded"
    /\ bpfPrograms["prog-node2"] = "Loaded"

-----------------------------------------------------------------------------
(* updateLinks.                                                            *)

\* The stored links equal in identity to the expected link e.
StoredLike(e) == {i \in DOMAIN links : SameLink(links[i], e)}

\* C25: in every link reconcile whose expansion succeeds, updateLinks hands
\* on a collection in which a stored link has ShouldAttach true exactly when
\* it is equal in identity to an expected link, every stored link is still
\* at its index, and every expected link equal in identity to no stored link
\* has been appended once, with ShouldAttach true.
C25_UpdateLinksPost ==
    [][last'.kind = "links" =>
          \E ul \in {Rerun} :
              /\ ~ul.err
              /\ Len(ul.links) >= Len(links)
              /\ \A i \in DOMAIN links :
                    /\ SameLink(ul.links[i], links[i])
                    /\ ul.links[i].ShouldAttach
                          <=> \E k \in DOMAIN ul.expected :
                                  SameLink(links[i], ul.expected[k])
              /\ \A k \in DOMAIN ul.expected :
                    StoredLike(ul.expected[k]) = {} =>
                        Cardinality({j \in (Len(links) + 1)..Len(ul.links) :
                            /\ SameLink(ul.links[j], ul.expected[k])
                            /\ ul.links[j].ShouldAttach}) = 1]_vars

\* A reconcile after a spec edit found the stored link of eth1 again and
\* appended the links of eth0 and eth2 behind it, which this pass attached.
C25_Witness ==
    /\ AfterLinks /\ last.lastErr = 0
    /\ Len(links) = 3
    /\ links[1].InterfaceName = "eth1"
    /\ {c.uuid : c \in Range(last.calls)} = {links[2].UUID, links[3].UUID}
    /\ \A c \in Range(last.calls) : c.rpc = "attach"
    /\ \A i \in DOMAIN links : links[i].ShouldAttach /\ links[i].LinkId # None

-----------------------------------------------------------------------------
(* The RPCs of a pass.                                                     *)

\* The runtime reports the handle the link holds.
Live(l) == l.LinkId # None /\ \E r \in rtLinks : r.id = l.LinkId[1]

\* The RPCs of kind rpc among calls that name the UUID u.
RpcsFor(calls, rpc, u) ==
    {k \in DOMAIN calls : calls[k].rpc = rpc /\ calls[k].uuid = u}

\* C26: in every pass over the links, of a program that stays or of one
\* being deleted, an attach RPC is issued only for a link that has
\* ShouldAttach true and is not attached, a detach RPC only for a link that
\* has ShouldAttach false and a LinkId, each at most once; a link that
\* should be attached and is live, and one that should not be and has no
\* LinkId, cause no RPC; and every RPC names a link of the collection.
C26_RpcPreconditions ==
    [][last'.kind \in {"links", "delete", "gone"} =>
          \E ul \in {updateLinks(links, deleting, desired, containers,
                                 FALSE, FALSE, UsedUUIDs)} :
              /\ \A c \in Range(last'.calls) : c.uuid \in UUIDsOf(ul.links)
              /\ \A i \in DOMAIN ul.links :
                  \E l \in {ul.links[i]} :
                  \E att \in {RpcsFor(last'.calls, "attach", l.UUID)},
                     det \in {RpcsFor(last'.calls, "detach", l.UUID)} :
                      /\ Cardinality(att) <= 1 /\ Cardinality(det) <= 1
                      /\ att # {} => (l.ShouldAttach /\ ~Live(l))
                      /\ det # {} => (~l.ShouldAttach /\ l.LinkId # None)
                      /\ (l.ShouldAttach /\ Live(l)) => att \cup det = {}
                      /\ (~l.ShouldAttach /\ l.LinkId = None)
                             => att \cup det = {}]_vars

\* One pass issued exactly two RPCs, both successful: the detach of a link
\* no longer expected and the attach of an expected link that was not
\* attached; one link is left.
C26_Witness ==
    /\ AfterLinks
    /\ \E c \in Range(last.calls) : c.rpc = "attach" /\ c.ok
    /\ \E c \in Range(last.calls) : c.rpc = "detach" /\ c.ok
    /\ Len(last.calls) = 2
    /\ Len(links) = 1

-----------------------------------------------------------------------------
(* Removal of links and failed detaches.                                   *)

\* The step is a pass over the links, of a program that stays or of one
\* being deleted.
PassStep == last'.kind \in {"links", "delete", "gone"}

\* The successful, the failed detach RPCs of the pass just made.
DetachedOk(u) == \E c \in Range(last'.calls) : c.rpc = "detach" /\ c.uuid = u /\ c.ok
DetachFailed(calls) == {c.uuid : c \in {d \in Range(calls) : d.rpc = "detach" /\ ~d.ok}}

\* A failed detach leaves the link in the collection, not to be attached,
\* with its UUID and LinkId and with AttachError.
FailedDetachKeeps ==
    \A i \in DOMAIN links :
        links[i].UUID \in DetachFailed(last'.calls) =>
            \E j \in DOMAIN links' :
                /\ links'[j].UUID = links[i].UUID
                /\ links'[j].LinkId = links[i].LinkId
                /\ links[i].LinkId # None
                /\ links'[j].LinkStatus = "AttachError"
                /\ ~links'[j].ShouldAttach

\* A pass that directly follows a pass in which a detach failed issues the
\* detach again.
DetachRetried ==
    last.kind \in {"links", "delete"} =>
        \A u \in DetachFailed(last.calls) :
            \E c \in Range(last'.calls) : c.rpc = "detach" /\ c.uuid = u

-----------------------------------------------------------------------------
(* processLinks: one visit per link, the last error, the status.           *)

\* The indices of ls whose link needs an RPC: to be attached and not live,
\* or not to be attached and live.
NeedsRpc(ls) ==
    {i \in DOMAIN ls : ls[i].ShouldAttach # Live(ls[i])}

\* The indices of ls whose RPC failed in the pass just made.
FailedIn(ls) ==
    {i \in DOMAIN ls :
        \E c \in Range(last'.calls) : c.uuid = ls[i].UUID /\ ~c.ok}

\* C28: in every pass processLinks reconciles every link once and in the
\* order of the collection: the RPCs of the pass are those of the links that
\* need one, one each, in that order, whether or not an earlier one failed;
\* it returns nil exactly when no link failed and else the error of the
\* failing link that comes last in the collection; and the aggregate status
\* it leaves is the one computed from the links it leaves, error or not.
C28_LastErrorAndStatus ==
    [][PassStep =>
          \E ul \in {updateLinks(links, deleting, desired, containers,
                                 FALSE, FALSE, UsedUUIDs)} :
          \E need \in {Keep(ul.links, NeedsRpc(ul.links), 1)} :
              /\ Len(last'.calls) = Len(need)
              /\ \A k \in DOMAIN need : last'.calls[k].uuid = need[k].UUID
              /\ last'.lastErr = 0 <=> FailedIn(ul.links) = {}
              /\ last'.lastErr # 0
                    => last'.lastErr = Max(FailedIn(ul.links))
              /\ programLinkStatus' = updateProgramAttachStatus(links')]_vars

\* Of three links the first two failed and the third was attached: the
\* error returned is that of the second, and the status is Error.
C28_Witness ==
    /\ AfterLinks
    /\ Len(last.calls) = 3
    /\ ~last.calls[1].ok /\ ~last.calls[2].ok /\ last.calls[3].ok
    /\ last.lastErr = 2
    /\ programLinkStatus = "Error"

-----------------------------------------------------------------------------
(* updateLinks on a program being deleted.                                 *)

\* C29: in every reconcile of a program being deleted updateLinks returns
\* nil and hands on the stored links, each with ShouldAttach false and
\* nothing else changed, in the same number and order; no expected link is
\* produced, also when the interfaces or the containers cannot be resolved.
C29_DeletionResetsOnly ==
    [][last'.kind \in {"delete", "gone"} =>
          \A ifErr, ctrErr \in BOOLEAN :
              \E ul \in {updateLinks(links, TRUE, desired, containers,
                                     ifErr, ctrErr, UsedUUIDs)} :
                  /\ ~ul.err
                  /\ ul.expected = <<>>
                  /\ Len(ul.links) = Len(links)
                  /\ \A i \in DOMAIN links :
                        /\ ~ul.links[i].ShouldAttach
                        /\ ul.links[i] = [links[i] EXCEPT !.ShouldAttach = FALSE]]_vars

\* A deletion pass over the link of a program whose spec still selects it:
\* the link, attached and to be attached before, is kept by a failed detach
\* with ShouldAttach false and its LinkId.
C29_Witness ==
    /\ last.kind = "delete"
    /\ desired # <<>>
    /\ Len(links) = 1
    /\ ~links[1].ShouldAttach /\ Live(links[1])
    /\ Len(last.calls) = 1 /\ ~last.calls[1].ok

-----------------------------------------------------------------------------
(* Expansion over the interfaces' namespaces.                              *)

\* The namespaces the input gives for an interface.
NamespacesOf(iface) ==
    IF iface \in DOMAIN fn.in.netns THEN fn.in.netns[iface] ELSE <<>>

\* The namespace paths of the links produced for an interface, in order.
PathsFor(iface) ==
    \E ls \in {Keep(fn.out.links,
                    {k \in DOMAIN fn.out.links :
                        fn.out.links[k].InterfaceName = iface}, 1)} :
        IF NamespacesOf(iface) = <<>>
        THEN Len(ls) = 1 /\ ls[1].NetnsPath = <<>>
        ELSE /\ Len(ls) = Len(NamespacesOf(iface))
             /\ \A k \in DOMAIN ls : ls[k].NetnsPath = NamespacesOf(iface)[k]

-----------------------------------------------------------------------------
(* Expansion over the pods a namespace selector matches.                   *)

\* The pods of the containers listed, and the pid of the first container
\* listed of a pod.
PodsOf(cs) == {cs[k].podName : k \in DOMAIN cs}
FirstPidOf(cs, pod) ==
    cs[CHOOSE k \in DOMAIN cs :
          /\ cs[k].podName = pod
          /\ \A j \in 1..(k - 1) : cs[j].podName # pod].pid

\* C31: with a namespace selector that matches containers the expansion
\* succeeds and produces, for every interface of the selector and every pod
\* among the containers, exactly one link, and no other link; the link
\* carries the namespace path of the pid of the first container listed of
\* that pod and the priority and proceed-on list of the attach info.
C31_OnePerInterfaceAndPod ==
    (fn.kind = "podout" /\ fn.in.cinfo # None) =>
        \E cs \in {fn.in.cinfo[1]} :
            /\ ~fn.out.err
            /\ Len(fn.out.links)
                   = Len(fn.in.ifs) * Cardinality(PodsOf(cs))
            /\ \A i \in DOMAIN fn.in.ifs : \A pod \in PodsOf(cs) :
                  Cardinality({k \in DOMAIN fn.out.links :
                      /\ fn.out.links[k].InterfaceName = fn.in.ifs[i]
                      /\ fn.out.links[k].NetnsPath
                             = netnsPathFromPID(FirstPidOf(cs, pod))}) = 1
            /\ \A k \in DOMAIN fn.out.links :
                  /\ fn.out.links[k].Priority = fn.in.Priority
                  /\ fn.out.links[k].ProceedOn = fn.in.ProceedOn

\* Two containers of one pod and two interfaces: two links, both in the
\* namespace of the first container, with priority 1 and the proceed-on
\* list of the attach info.
C31_Witness ==
    /\ fn.kind = "podout"
    /\ fn.in.cinfo # None
    /\ Len(fn.in.cinfo[1]) = 2
    /\ Cardinality(PodsOf(fn.in.cinfo[1])) = 1
    /\ Len(fn.in.ifs) = 2
    /\ Len(fn.out.links) = 2
    /\ fn.out.links[1].NetnsPath = netnsPathFromPID(fn.in.cinfo[1][1].pid)
    /\ fn.out.links[2].NetnsPath = netnsPathFromPID(fn.in.cinfo[1][1].pid)
    /\ fn.out.links[1].Priority = 1
    /\ fn.out.links[1].ProceedOn = Slice(<<"pass">>)

-----------------------------------------------------------------------------
(* The links an expansion produces.                                        *)

\* C32: in every link reconcile every link the expansion produces is to be
\* attached, has no LinkId and is NotAttached, and carries a UUID that no
\* stored link and no other link of the same expansion carries, also when
\* the links come from different attach infos or are the same attach point
\* produced twice.
C32_FreshRecords ==
    [][last'.kind = "links" =>
          \E ul \in {Rerun} :
              \A k \in DOMAIN ul.expected :
                  /\ ul.expected[k].ShouldAttach
                  /\ ul.expected[k].LinkId = None
                  /\ ul.expected[k].LinkStatus = "NotAttached"
                  /\ ul.expected[k].UUID \notin UUIDsOf(links)
                  /\ \A j \in DOMAIN ul.expected :
                        j # k => ul.expected[j].UUID # ul.expected[k].UUID]_vars

\* A reconcile expanded two attach infos into three links, two of them for
\* eth0, and left two stored links, attached, with different UUIDs.
C32_Witness ==
    /\ AfterLinks
    /\ Len(desired) = 2
    /\ Len(links) = 2
    /\ links[1].InterfaceName = "eth0" /\ links[2].InterfaceName = "eth1"
    /\ links[1].UUID # links[2].UUID
    /\ links[1].LinkId # None /\ links[2].LinkId # None

-----------------------------------------------------------------------------
(* No attach point twice in the collection.                                *)

\* Two links are the same attach point: interface, priority, namespace path
\* and proceed-on list are equal.
SameAttachPoint(a, b) ==
    /\ a.InterfaceName = b.InterfaceName
    /\ a.Priority = b.Priority
    /\ a.NetnsPath = b.NetnsPath
    /\ a.ProceedOn = b.ProceedOn

\* No two links of ls are the same attach point.
NoTwins(ls) ==
    \A i, j \in DOMAIN ls : i # j => ~SameAttachPoint(ls[i], ls[j])

\* C33: the stored collection never holds the same attach point twice, and
\* neither does the collection updateLinks hands to processLinks, although
\* the expansion produces an attach point twice when an interface is listed
\* twice or two attach infos select it.
C33_NoTwins ==
    /\ [](NoTwins(links))
    /\ [][last'.kind = "links" =>
             \E ul \in {Rerun} : NoTwins(ul.links)]_vars

\* After a spec edit the desired program lists eth0 twice: the reconcile
\* left one link of eth0, attached once.
C33_Witness ==
    /\ AfterLinks
    /\ Len(desired) = 1
    /\ desired[1].InterfaceSelector.Interfaces = <<"eth0", "eth0">>
    /\ Len(links) = 1
    /\ links[1].InterfaceName = "eth0"
    /\ links[1].LinkId # None
    /\ Cardinality(rtLinks) = 1
    /\ budget.change < MaxChanges

-----------------------------------------------------------------------------
(* Application clean-up and the sub-programs the spec still declares.      *)

\* C34 as the specification states it: the clean-up of a pass never unloads
\* or deletes a record whose sub-program the application still declares,
\* also when that sub-program was skipped in the pass because its interface
\* selector could not be resolved.
C34_AsStated ==
    appLast.kind = "pass" =>
        \A i \in DOMAIN apps : \A r \in appLast.unloaded :
            r.owner = apps[i].Name => r.id \notin SpecIds(apps[i])

\* What does hold: the clean-up never deletes the record of a sub-program
\* the pass handed to reconcileCommon.
C34_ReconciledKept ==
    appLast.kind = "pass" =>
        \A i \in DOMAIN apps : \A p \in Range(apps[i].Programs) :
            <<apps[i].Name, p.Type>> \in appLast.reconciled =>
                \A r \in appLast.unloaded :
                    ~(r.owner = apps[i].Name /\ r.id = appProgramId(p))

\* An application declares a fentry and an XDP sub-program; the XDP record
\* exists; in the pass getInterfaces fails, the XDP sub-program is skipped,
\* the fentry sub-program completes, and the clean-up deletes the XDP record.
C34_SkippedRecordDeleted ==
    /\ appLast.kind = "pass" /\ appLast.ifErr
    /\ \E i \in DOMAIN apps :
           /\ XdpProg \in Range(apps[i].Programs)
           /\ <<apps[i].Name, "XDP">> \in appLast.skipped
           /\ apps[i].Name \in appLast.cleaned
           /\ \E r \in appLast.unloaded :
                  /\ r = [owner |-> apps[i].Name, id |-> appProgramId(XdpProg)]
                  /\ r \in appLast.before /\ r \notin appRecords

-----------------------------------------------------------------------------
(* The order of a pass over the applications and where it returns.         *)

\* The positions (application, sub-program) of the current list.
Pairs == UNION {{<<i, j>> : j \in DOMAIN apps[i].Programs} : i \in DOMAIN apps}

\* Position p comes before position q in list order.
Before(p, q) == p[1] < q[1] \/ (p[1] = q[1] /\ p[2] < q[2])

\* The sub-program at a position, as the pass records it.
Key(p) == <<apps[p[1]].Name, apps[p[1]].Programs[p[2]].Type>>

\* The latest pass got to the sub-program at position p.
Done(p) == Key(p) \in appLast.reconciled \cup appLast.skipped

-----------------------------------------------------------------------------
(* updateLinks when the expansion fails.                                   *)

\* C36 as the specification states it: when the expansion fails inside
\* updateLinks, updateLinks returns the error and every stored link has the
\* ShouldAttach it had before the call.
C36_AsStated ==
    [][last'.kind = "expandError" =>
          \E ul \in {updateLinks(links, FALSE, desired, containers,
                                 TRUE, FALSE, UsedUUIDs)} :
              /\ ul.err
              /\ Len(ul.links) = Len(links)
              /\ \A i \in DOMAIN links :
                     ul.links[i].ShouldAttach = links[i].ShouldAttach]_vars

\* What does hold: updateLinks returns the error, and the links it leaves
\* are the stored ones with ShouldAttach false and nothing else changed; no
\* link is added or removed, no RPC is issued and the runtime keeps its
\* links.
C36_ErrorResetsFlags ==
    [][last'.kind = "expandError" =>
          /\ \E ul \in {updateLinks(links, FALSE, desired, containers,
                                    TRUE, FALSE, UsedUUIDs)} :
                 /\ ul.err
                 /\ Len(ul.links) = Len(links)
                 /\ \A i \in DOMAIN links :
                        ul.links[i] = [links[i] EXCEPT !.ShouldAttach = FALSE]
                 /\ links' = ul.links
          /\ rtLinks' = rtLinks /\ rpcHist' = rpcHist]_vars

\* The expansion failed in the reconcile of a program whose spec still asks
\* for its attached link: the link is left with ShouldAttach false.
C36_FlagCleared ==
    /\ last.kind = "expandError"
    /\ Len(desired) = 1 /\ Len(links) = 1
    /\ links[1].InterfaceName \in Range(desired[1].InterfaceSelector.Interfaces)
    /\ Live(links[1])
    /\ ~links[1].ShouldAttach

-----------------------------------------------------------------------------
(* The attach request and the kernel program id.                           *)

\* xdpProceedOnToInt: the codes of the proceed-on values, unknown values
\* dropped.
xdpProceedOnToInt(proceedOn) ==
    LET code(v) == CASE v = "aborted" -> 0 [] v = "drop" -> 1
                     [] v = "pass" -> 2 [] v = "tx" -> 3
                     [] v = "redirect" -> 4 [] v = "dispatcher_return" -> 31
                     [] OTHER -> -1
        codes == [i \in DOMAIN proceedOn.elems |-> code(proceedOn.elems[i])]
    IN  Keep(codes, {i \in DOMAIN codes : codes[i] # -1}, 1)

\* getAttachRequest: the request for the current link.  The Id is read
\* through the program id, which has to be set.
getAttachRequest(progId, link) ==
    [Id        |-> progId[1],
     Priority  |-> link.Priority,
     Iface     |-> link.InterfaceName,
     ProceedOn |-> xdpProceedOnToInt(link.ProceedOn),
     Metadata  |-> link.UUID,
     Netns     |-> IF Len(link.NetnsPath) > 0 THEN Some(link.NetnsPath)
                   ELSE None]

-----------------------------------------------------------------------------
(* Listing the runtime: ListBpfmanPrograms and ListBpfmanAttachments.      *)

UuidMetadataKey == "bpfman.io/uuid"

\* Program metadata: without the UUID key, or with it.
Metadatas ==
    {[k \in {} |-> ""]}
        \cup {[k \in {UuidMetadataKey} |-> u] : u \in {"u1", "u2"}}

\* The results of a List response: a kernel id, and info (nil, or metadata).
ListResultSet ==
    [id : 1..MaxResults, info : {None} \cup {Some(m) : m \in Metadatas}]

\* A List call: the response, and the error of the RPC (None: nil).
ListInputs ==
    [kind    : {"listin"},
     results : {l \in ListsOf(ListResultSet, MaxResults) :
                  \A i, j \in DOMAIN l : i # j => l[i].id # l[j].id},
     rpcErr  : {None, Some("unavailable")}]

EmptyMap == [u \in {} |-> 0]

\* out[uuid] = result
Put(out, uuid, result) ==
    [u \in DOMAIN out \cup {uuid} |-> IF u = uuid THEN result ELSE out[u]]

\* A loop over the results that passes over a result without the UUID key.
RECURSIVE ListLoopLenient(_, _, _)
ListLoopLenient(results, i, out) ==
    IF i > Len(results) THEN [out |-> Some(out), err |-> None]
    ELSE IF results[i].info # None
            /\ UuidMetadataKey \in DOMAIN results[i].info[1]
    THEN ListLoopLenient(results, i + 1,
                         Put(out, results[i].info[1][UuidMetadataKey], results[i]))
    ELSE ListLoopLenient(results, i + 1, out)

\* The loop over listResponse.Results: results without info are passed over,
\* a result whose metadata lacks the UUID key ends the call with an error.
RECURSIVE ListLoop(_, _, _)
ListLoop(results, i, out) ==
    IF i > Len(results) THEN [out |-> Some(out), err |-> None]
    ELSE IF results[i].info = None THEN ListLoop(results, i + 1, out)
    ELSE IF UuidMetadataKey \in DOMAIN results[i].info[1]
    THEN ListLoop(results, i + 1,
                  Put(out, results[i].info[1][UuidMetadataKey], results[i]))
    ELSE [out |-> None,
          err |-> Some("unable to get uuid from program metadata")]

\* ListBpfmanPrograms: out is the map (None: nil), err the error (None: nil).
ListBpfmanPrograms(results, rpcErr) ==
    IF rpcErr # None THEN [out |-> None, err |-> rpcErr]
    ELSE ListLoop(results, 1, EmptyMap)

\* ListBpfmanAttachments
ListBpfmanAttachments(results, rpcErr) ==
    IF rpcErr # None THEN [out |-> None, err |-> rpcErr]
    ELSE ListLoop(results, 1, EmptyMap)

InitList ==
    InitAgent /\ desired = <<>> /\ InitOp /\ InitNoApp /\ InitNoConc
        /\ fn \in ListInputs

ListPrograms ==
    /\ fn.kind = "listin"
    /\ fn' = [kind |-> "listed", call |-> "programs", in |-> fn,
              got |-> ListBpfmanPrograms(fn.results, fn.rpcErr)]
    /\ UNCHANGED <<agentVars, opVars, appVars, concVars>>

ListAttachments ==
    /\ fn.kind = "listin"
    /\ fn' = [kind |-> "listed", call |-> "attachments", in |-> fn,
              got |-> ListBpfmanAttachments(fn.results, fn.rpcErr)]
    /\ UNCHANGED <<agentVars, opVars, appVars, concVars>>

NextList == ListPrograms \/ ListAttachments

SpecList == InitList /\ [][NextList]_vars

\* The positions of the results with info, and of those among them that
\* carry the UUID key.
WithInfo(results) == {i \in DOMAIN results : results[i].info # None}

Keyed(results) ==
    {i \in WithInfo(results) : UuidMetadataKey \in DOMAIN results[i].info[1]}

UuidOf(r) == r.info[1][UuidMetadataKey]

\* The error cases both readings share: an RPC error is handed back as it
\* is with no map, and so is an error when a result with info lacks the UUID
\* key; otherwise there is a map and no error.
ListErrors ==
    /\ fn.in.rpcErr # None => fn.got = [out |-> None, err |-> fn.in.rpcErr]
    /\ (fn.in.rpcErr = None
            /\ WithInfo(fn.in.results) # Keyed(fn.in.results))
           => (fn.got.out = None /\ fn.got.err # None)
    /\ (fn.in.rpcErr = None
            /\ WithInfo(fn.in.results) = Keyed(fn.in.results))
           => (fn.got.out # None /\ fn.got.err = None)

\* C39 as the specification states it: in the map every listed result that
\* has info is found under its own UUID.
C39_AsStated ==
    fn.kind = "listed" =>
        /\ ListErrors
        /\ fn.got.out # None =>
               /\ DOMAIN fn.got.out[1]
                      = {UuidOf(fn.in.results[i]) : i \in Keyed(fn.in.results)}
               /\ \A i \in Keyed(fn.in.results) :
                      fn.got.out[1][UuidOf(fn.in.results[i])] = fn.in.results[i]

\* C39: the map's keys are the UUIDs of the listed results that have info,
\* and under each UUID is the last listed result that carries it; a result
\* is found under its own UUID unless a later one carries the same UUID.
\* An RPC error comes back as it is with no map, and a result with info but
\* without the UUID key makes the call return an error and no map.
C39_LastResultPerUuid ==
    fn.kind = "listed" =>
        /\ ListErrors
        /\ fn.got.out # None =>
               /\ DOMAIN fn.got.out[1]
                      = {UuidOf(fn.in.results[i]) : i \in Keyed(fn.in.results)}
               /\ \A i \in Keyed(fn.in.results) :
                      (\A j \in Keyed(fn.in.results) :
                           j > i => UuidOf(fn.in.results[j])
                                        # UuidOf(fn.in.results[i]))
                      <=> fn.got.out[1][UuidOf(fn.in.results[i])]
                              = fn.in.results[i]

\* Two listed results carry the same UUID: the map holds the later one.
C39_Witness ==
    /\ fn.kind = "listed"
    /\ Len(fn.in.results) = 2
    /\ Keyed(fn.in.results) = {1, 2}
    /\ UuidOf(fn.in.results[1]) = "u1" /\ UuidOf(fn.in.results[2]) = "u1"
    /\ fn.got.err = None
    /\ DOMAIN fn.got.out[1] = {"u1"}
    /\ fn.got.out[1]["u1"] = fn.in.results[2]

-----------------------------------------------------------------------------
(* removeLinks.                                                            *)

\* The number of indices up to i that are not in R.
Rank(i, R) == Cardinality({j \in 1..i : j \notin R})

\* out is ls without the links at the indices in R: as many links as there
\* are indices outside R, the k-th of them being, with every field, the link
\* of ls at the k-th index outside R.
IsRest(out, ls, R) ==
    /\ Len(out) = Cardinality(DOMAIN ls \ R)
    /\ \A k \in DOMAIN out :
           \E i \in DOMAIN ls \ R : Rank(i, R) = k /\ out[k] = ls[i]

\* The UUIDs whose RPC failed in the calls of a pass.
FailedUUIDs(calls) == {calls[k].uuid : k \in {j \in DOMAIN calls : ~calls[j].ok}}

\* C40: removeLinks returns the links whose index is not in linksToRemove,
\* in their order and with their fields, for every set of indices; a pass of
\* processLinks stores the links its loop left without those marked for
\* removal, and when none is marked it stores them all, in the same number
\* and order.
C40_RemoveLinks ==
    [][PassStep =>
          \E ul \in {updateLinks(links, deleting, desired, containers,
                                 FALSE, FALSE, UsedUUIDs)} :
              /\ \A R \in SUBSET DOMAIN ul.links :
                     \E out \in {removeLinks(ul.links, R)} :
                         IsRest(out, ul.links, R)
              /\ \E F \in {FailedUUIDs(last'.calls)} :
                 \E done \in {ProcessFrom([links |-> ul.links, remove |-> {},
                                           lastErr |-> 0, calls |-> <<>>,
                                           rt |-> rtLinks],
                                          1, programId,
                                          IF deleting THEN {} ELSE F, F)} :
                     /\ IsRest(links', done.links, done.remove)
                     /\ done.remove = {} =>
                            /\ links' = done.links
                            /\ Len(links') = Len(ul.links)
                            /\ \A i \in DOMAIN links' :
                                   links'[i].UUID = ul.links[i].UUID]_vars

\* Of three stored links the first and the third were detached and removed
\* in a pass, and the second is what the collection holds.
C40_Witness ==
    /\ last.kind = "links"
    /\ Len(last.calls) = 2
    /\ \A k \in DOMAIN last.calls :
           last.calls[k].rpc = "detach" /\ last.calls[k].ok
    /\ Len(links) = 1
    /\ links[1].ShouldAttach /\ Live(links[1])
    /\ last.calls[1].uuid < links[1].UUID
    /\ last.calls[2].uuid > links[1].UUID
====
